---- MODULE Spec2Model ----
(***************************************************************************)
(* The hybrid (RAM + disk) image cache of src/src/server.ts and the        *)
(* request handlers that use it: GET /og, DELETE /cache/:key and the       *)
(* periodic cleanup_cache sweep.  Every await of the handlers is a         *)
(* separate step, so that concurrent requests interleave as they do on     *)
(* the Node.js event loop.                                                 *)
(***************************************************************************)
EXTENDS Integers, Sequences, FiniteSets, TLC

----------------------------------------------------------------------------
(* Bounds of the model *)

\* number of requests the server receives in one behaviour
NumReqs == 3
\* number of times the clock advances
MaxTicks == 2
\* number of entries of a memory tier handed to cleanup_cache on its own
MaxEntries == 3
\* DEFAULT_CACHE_TTL, in seconds (86400 unless configured)
CACHE_TTL == 1
\* IMAGE_CACHE_MAX_SIZE (100 unless configured)
MAX_RAM_CACHE_SIZE == 1

\* CACHE_TTL is in seconds, Date.now() in milliseconds
MsPerSec == 1000

TTL_MS == CACHE_TTL * MsPerSec

Reqs == 1 .. NumReqs

\* Cache keys, as sequences of characters
Keys == { <<"a">>, <<"%">> }

\* The values of c.req.param("key") that DELETE /cache/:key is called with:
\* the keys as they are, and the key "%" percent-encoded
DelParams == Keys \cup { <<"%", "2", "5">> }

----------------------------------------------------------------------------
(* Byte sequences *)

\* The PNG produced by the render of request gen for cache key key
Image(k, r) == [key |-> k, gen |-> r]

\* The content of a file that was opened for writing (truncated) and whose
\* data has not been written: a strict prefix of the image
PartialBuf == [key |-> <<>>, gen |-> 0]

\* No bytes at all (a response without an image body)
NoBuf == [key |-> <<>>, gen |-> -1]

IsComplete(buf) == buf.gen >= 1

----------------------------------------------------------------------------
(* decodeURIComponent *)

HexDigits == <<"0", "1", "2", "3", "4", "5", "6", "7", "8", "9",
               "A", "B", "C", "D", "E", "F">>

LowerHex == <<"0", "1", "2", "3", "4", "5", "6", "7", "8", "9",
              "a", "b", "c", "d", "e", "f">>

IsHex(c) == \E i \in 1 .. 16 : c = HexDigits[i] \/ c = LowerHex[i]

HexValue(c) == (CHOOSE i \in 1 .. 16 : c = HexDigits[i] \/ c = LowerHex[i]) - 1

\* the characters of codes 32 .. 126; the double quote, the backslash and
\* the backtick are written as words
Ascii ==
    <<" ", "!", "dquote", "#", "$", "%", "&", "'", "(", ")", "*", "+", ",", "-",
      ".", "/", "0", "1", "2", "3", "4", "5", "6", "7", "8", "9", ":", ";",
      "<", "=", ">", "?", "@", "A", "B", "C", "D", "E", "F", "G", "H", "I",
      "J", "K", "L", "M", "N", "O", "P", "Q", "R", "S", "T", "U", "V", "W",
      "X", "Y", "Z", "[", "bslash", "]", "^", "_", "btick", "a", "b", "c", "d", "e",
      "f", "g", "h", "i", "j", "k", "l", "m", "n", "o", "p", "q", "r", "s",
      "t", "u", "v", "w", "x", "y", "z", "{", "|", "}", "~">>

\* the character of an octet below 128; a control character is written "ctl"
CharOfCode(n) == IF n >= 32 /\ n <= 126 THEN Ascii[n - 31] ELSE "ctl"

\* s has a well-formed escape %XX at position i
EscapeAt(s, i) ==
    /\ i + 2 <= Len(s)
    /\ s[i] = "%"
    /\ IsHex(s[i + 1])
    /\ IsHex(s[i + 2])

OctetAt(s, i) == 16 * HexValue(s[i + 1]) + HexValue(s[i + 2])

\* the number of continuation octets the lead octet n announces, -1 if n is
\* no lead octet of UTF-8
Continuations(n) ==
    IF n < 128 THEN 0
    ELSE IF n >= 194 /\ n <= 223 THEN 1
    ELSE IF n >= 224 /\ n <= 239 THEN 2
    ELSE IF n >= 240 /\ n <= 244 THEN 3
    ELSE -1

\* the escapes at i, i + 3, ... are n continuation octets (128 .. 191)
RECURSIVE ContinuationsAt(_, _, _)
ContinuationsAt(s, i, n) ==
    IF n = 0 THEN TRUE
    ELSE /\ EscapeAt(s, i)
         /\ OctetAt(s, i) >= 128
         /\ OctetAt(s, i) <= 191
         /\ ContinuationsAt(s, i + 3, n - 1)

\* decodeURIComponent(s) from position i on: the decoded characters, or
\* <<"URIError">> where it throws. A character beyond ASCII is written "u".
RECURSIVE DecodeFrom(_, _)
DecodeFrom(s, i) ==
    IF i > Len(s) THEN <<>>
    ELSE IF s[i] # "%"
    THEN LET rest == DecodeFrom(s, i + 1)
         IN  IF rest = <<"URIError">> THEN rest ELSE <<s[i]>> \o rest
    ELSE IF ~EscapeAt(s, i) THEN <<"URIError">>
    ELSE LET n == OctetAt(s, i)
             c == Continuations(n)
         IN  IF c = -1 \/ ~ContinuationsAt(s, i + 3, c) THEN <<"URIError">>
             ELSE LET rest == DecodeFrom(s, i + 3 * (c + 1))
                  IN  IF rest = <<"URIError">> THEN rest
                      ELSE <<IF c = 0 THEN CharOfCode(n) ELSE "u">> \o rest

decodeURIComponent(s) == DecodeFrom(s, 1)

Throws(decoded) == decoded = <<"URIError">>

----------------------------------------------------------------------------
(* File names of the disk tier *)

SafeChars ==
    { "a", "b", "c", "d", "e", "f", "g", "h", "i", "j", "k", "l", "m",
      "n", "o", "p", "q", "r", "s", "t", "u", "v", "w", "x", "y", "z",
      "A", "B", "C", "D", "E", "F", "G", "H", "I", "J", "K", "L", "M",
      "N", "O", "P", "Q", "R", "S", "T", "U", "V", "W", "X", "Y", "Z",
      "0", "1", "2", "3", "4", "5", "6", "7", "8", "9", "-", "_" }

\* cache_key.replace(/[^a-zA-Z0-9\-_]/g, "_")
Sanitize(k) == [i \in 1 .. Len(k) |-> IF k[i] \in SafeChars THEN k[i] ELSE "_"]

\* join(CACHE_DIR, `${sanitized}.png`)
FileName(k) == Sanitize(k) \o <<".", "p", "n", "g">>

Files == { FileName(k) : k \in Keys }

NoFile == [exists |-> FALSE, content |-> NoBuf, mtime |-> 0]

----------------------------------------------------------------------------
VARIABLES
    now,        \* Date.now()
    ram_cache,  \* the Map ram_cache, in insertion order
    disk,       \* the files of CACHE_DIR
    writes,     \* the fs.writeFile calls of save_to_disk_cache in progress
    req,        \* the requests and how far their handlers have run; of a
                \* lookup in progress also what had happened when it began:
                \* after_del (del_done of its key) and seen (the number of
                \* cache_image calls for its key, kept by a lookup that hit)
    swept,      \* the memory tier as the last run of cleanup_cache found it,
                \* and the time of that run
    del_done,   \* per key: a DELETE /cache/:key has completed and no
                \* cache_image of the key has started since
    logged,     \* the number of disk write failures reported by
                \* console.error in save_to_disk_cache
    probe,      \* the arguments and the result of a function of the program
                \* applied on its own
    gen         \* a call of image_generator.generate_image run on its own

vars ==
    <<now, ram_cache, disk, writes, req, swept, del_done, logged, probe, gen>>

\* the variables of the parts of the program that run on their own
apart == <<probe, gen>>

NoProbe == [kind |-> "none"]

NoGen == [pc |-> "idle"]

NoReq ==
    [kind |-> "none", pc |-> "idle", key |-> <<>>, lookup |-> "",
     rendered |-> FALSE, status |-> 0, xcache |-> "", body |-> NoBuf,
     cached_at |-> -1, ram_deleted |-> FALSE, disk_deleted |-> FALSE,
     after_del |-> FALSE, seen |-> 0, disk_error |-> FALSE]

NotSwept == [map |-> <<>>, at |-> -1]

Init ==
    /\ now = 0
    /\ ram_cache = <<>>
    /\ disk = [f \in Files |-> NoFile]
    /\ writes = {}
    /\ req = [r \in Reqs |-> NoReq]
    /\ swept = NotSwept
    /\ del_done = [k \in Keys |-> FALSE]
    /\ logged = 0
    /\ probe = NoProbe
    /\ gen = NoGen

----------------------------------------------------------------------------
(* The Map ram_cache *)

RamKeys(m) == { m[i].key : i \in 1 .. Len(m) }

RamHas(m, k) == k \in RamKeys(m)

RamGet(m, k) == m[CHOOSE i \in 1 .. Len(m) : m[i].key = k]

\* Map.set: an existing key keeps its place, a new key goes last
RamSet(m, k, buf, ts) ==
    LET e == [key |-> k, buffer |-> buf, timestamp |-> ts]
    IN  IF RamHas(m, k)
        THEN [i \in 1 .. Len(m) |-> IF m[i].key = k THEN e ELSE m[i]]
        ELSE Append(m, e)

\* Map.delete
RamDelete(m, k) == SelectSeq(m, LAMBDA e : e.key # k)

----------------------------------------------------------------------------
(* Expiry tests *)

\* get_cached_image: age < CACHE_TTL * 1000
RamFresh(e, t) == t - e.timestamp < TTL_MS

\* a disk tier that takes every file for expired
DiskExpiredAlways(f, t) == TRUE

\* get_from_disk_cache: age > CACHE_TTL * 1000
DiskExpired(f, t) == t - f.mtime > TTL_MS

\* cleanup_cache: now - entry.timestamp > CACHE_TTL * 1000
SweepExpired(e, t) == t - e.timestamp > TTL_MS

----------------------------------------------------------------------------
(* cleanup_cache *)

RECURSIVE InsertByTimestamp(_, _)
\* e placed after every entry whose timestamp is not larger (stable)
InsertByTimestamp(s, e) ==
    IF s = <<>> THEN <<e>>
    ELSE IF e.timestamp < Head(s).timestamp THEN <<e>> \o s
    ELSE <<Head(s)>> \o InsertByTimestamp(Tail(s), e)

RECURSIVE SortByTimestamp(_)
\* entries.sort(([, a], [, b]) => a.timestamp - b.timestamp)
SortByTimestamp(s) ==
    IF s = <<>> THEN <<>>
    ELSE InsertByTimestamp(SortByTimestamp(SubSeq(s, 1, Len(s) - 1)), s[Len(s)])

\* the slice taken from the wrong end: entries.slice(MAX_RAM_CACHE_SIZE)
ToRemoveNewest(m) ==
    LET sorted == SortByTimestamp(m)
    IN  { sorted[i].key : i \in (MAX_RAM_CACHE_SIZE + 1) .. Len(m) }

\* the keys of entries.slice(0, ram_cache.size - MAX_RAM_CACHE_SIZE)
ToRemove(m) ==
    LET sorted == SortByTimestamp(m)
    IN  { sorted[i].key : i \in 1 .. (Len(m) - MAX_RAM_CACHE_SIZE) }

RemoveExpired(m, t) == SelectSeq(m, LAMBDA e : ~SweepExpired(e, t))

\* an eviction that does not look at the size of the memory tier
EvictAlways(m) ==
    IF m = <<>> THEN m
    ELSE SelectSeq(m, LAMBDA e : e.key # SortByTimestamp(m)[1].key)

RemoveOldest(m) ==
    IF Len(m) > MAX_RAM_CACHE_SIZE
    THEN SelectSeq(m, LAMBDA e : e.key \notin ToRemove(m))
    ELSE m

cleanup_cache(m, t) == RemoveOldest(RemoveExpired(m, t))

\* the setInterval timer fires
CleanupCache ==
    /\ ram_cache' = cleanup_cache(ram_cache, now)
    /\ UNCHANGED <<now, disk, writes, req, swept, apart, logged, del_done>>

----------------------------------------------------------------------------
(* cleanup_cache on its own, on every memory tier of up to MaxEntries
   entries: the entries in any insertion order, with any timestamps *)

SweepTimes == { i * (MsPerSec \div 2) : i \in 0 .. (2 * MaxTicks) }

SweepKey(i) == <<"k", HexDigits[i]>>

\* the memory tier whose i-th inserted entry has timestamp ts[i]
SweepMap(ts) ==
    [i \in 1 .. Len(ts) |->
        [key |-> SweepKey(i), buffer |-> Image(SweepKey(i), 1),
         timestamp |-> ts[i]]]

SweepMaps(t) ==
    { SweepMap(ts) :
        ts \in UNION { [1 .. n -> { u \in SweepTimes : u <= t }] :
                          n \in 0 .. MaxEntries } }

\* the key whose image file f holds
KeyOf(f) == CHOOSE k \in Keys : FileName(k) = f

\* the directories CACHE_DIR whose files were last written at times up to t
SweepDisks(t) ==
    { [f \in Files |->
          IF m[f] < 0
          THEN NoFile
          ELSE [exists |-> TRUE, content |-> Image(KeyOf(f), 1),
                mtime |-> m[f]]] :
        m \in [Files -> {-1} \cup { u \in SweepTimes : u <= t }] }

InitSweep ==
    /\ now \in SweepTimes
    /\ ram_cache \in SweepMaps(now)
    /\ disk \in SweepDisks(now)
    /\ writes = {}
    /\ req = [r \in Reqs |-> NoReq]
    /\ swept = NotSwept
    /\ del_done = [k \in Keys |-> FALSE]
    /\ logged = 0
    /\ probe = NoProbe
    /\ gen = NoGen

\* the timer fires once
SweepAlone ==
    /\ swept = NotSwept
    /\ swept' = [map |-> ram_cache, at |-> now]
    /\ ram_cache' = cleanup_cache(ram_cache, now)
    /\ UNCHANGED <<now, disk, writes, req, del_done, logged, apart>>

SpecSweep == InitSweep /\ [][SweepAlone]_vars

-----------------------------------------------------------------------------
(* DELETE /cache on its own: no /og request, cache_image or disk write in
   progress, on every memory tier over Keys and every set of image files *)

\* the memory tiers that hold the keys ks, in any insertion order
ClearMaps ==
    { m \in UNION { [1 .. n -> { [key |-> k, buffer |-> Image(k, 1),
                                  timestamp |-> 0] : k \in Keys }] :
                       n \in 0 .. Cardinality(Keys) } :
        \A i, j \in 1 .. Len(m) : i # j => m[i].key # m[j].key }

ClearDisks ==
    { [f \in Files |->
          IF f \in fs
          THEN [exists |-> TRUE, content |-> Image(KeyOf(f), 1), mtime |-> 0]
          ELSE NoFile] : fs \in SUBSET Files }

InitClear ==
    /\ now = 0
    /\ ram_cache \in ClearMaps
    /\ disk \in ClearDisks
    /\ writes = {}
    /\ req = [r \in Reqs |-> NoReq]
    /\ swept = NotSwept
    /\ del_done = [k \in Keys |-> FALSE]
    /\ logged = 0
    /\ probe = NoProbe
    /\ gen = NoGen

not_clear == <<now, writes, req, swept, del_done, logged, gen>>

\* const ram_cleared = ram_cache.size; ram_cache.clear(); fs.readdir is
\* called
ClearStart ==
    /\ probe = NoProbe
    /\ probe' = [kind |-> "clear", pc |-> "readdir",
                 ram_cleared |-> Len(ram_cache), disk_cleared |-> 0,
                 png_files |-> {}, pending |-> {}, rejected |-> FALSE,
                 status |-> 0]
    /\ ram_cache' = <<>>
    /\ UNCHANGED <<disk, not_clear>>

\* fs.readdir settles: when it rejects the catch block is entered; otherwise
\* png_files.map calls fs.unlink for every .png file of the listing
ClearReaddir(ok) ==
    /\ probe.kind = "clear"
    /\ probe.pc = "readdir"
    /\ LET png_files == { f \in Files : disk[f].exists }
       IN  probe' = IF ok
                    THEN [probe EXCEPT !.pc = "unlink",
                                       !.png_files = png_files,
                                       !.pending = png_files]
                    ELSE [probe EXCEPT !.pc = "respond", !.rejected = TRUE]
    /\ UNCHANGED <<ram_cache, disk, not_clear>>

\* one of the fs.unlink calls settles: it removes the file, or it rejects
\* and leaves it; fs.unlink of a file that is not there rejects
ClearUnlink(f, ok) ==
    /\ probe.kind = "clear"
    /\ f \in probe.pending
    /\ ok => disk[f].exists
    /\ disk' = IF ok THEN [disk EXCEPT ![f] = NoFile] ELSE disk
    /\ probe' = [probe EXCEPT !.pending = @ \ {f},
                              !.rejected = @ \/ ~ok]
    /\ UNCHANGED <<ram_cache, not_clear>>

\* Promise.all settles: it rejects as soon as one fs.unlink has rejected,
\* whatever the others do, and the catch block is entered; it resolves when
\* all have resolved, and disk_cleared = png_files.length
ClearSettle ==
    /\ probe.kind = "clear"
    /\ probe.pc = "unlink"
    /\ probe.rejected \/ probe.pending = {}
    /\ probe' = [probe EXCEPT
                    !.pc = "respond",
                    !.disk_cleared = IF probe.rejected
                                     THEN 0
                                     ELSE Cardinality(probe.png_files)]
    /\ UNCHANGED <<ram_cache, disk, not_clear>>

\* return c.json({ message, ram_cleared_entries, disk_cleared_entries })
ClearRespond ==
    /\ probe.kind = "clear"
    /\ probe.pc = "respond"
    /\ probe' = [probe EXCEPT !.pc = "done", !.status = 200]
    /\ UNCHANGED <<ram_cache, disk, not_clear>>

NextClear ==
    \/ ClearStart
    \/ \E ok \in BOOLEAN : ClearReaddir(ok)
    \/ \E f \in Files, ok \in BOOLEAN : ClearUnlink(f, ok)
    \/ ClearSettle
    \/ ClearRespond

SpecClear == InitClear /\ [][NextClear]_vars

-----------------------------------------------------------------------------
(* GET /health and GET /cache, one call after another, on every memory tier
   over Keys and every set of image files, with the setInterval timer of
   cleanup_cache *)

\* a key listing that is always empty
NoKeyList(m) == <<>>

\* Array.from(ram_cache.keys()): the keys in insertion order
RamKeyList(m) == [i \in 1 .. Len(m) |-> m[i].key]

Png == <<".", "p", "n", "g">>

\* f.endsWith(".png")
EndsWithPng(f) == Len(f) >= 4 /\ SubSeq(f, Len(f) - 3, Len(f)) = Png

\* f.replace(".png", ""): the first occurrence is removed
RemovePng(f) ==
    LET at == { i \in 1 .. (Len(f) - 3) : SubSeq(f, i, i + 3) = Png }
    IN  IF at = {} THEN f
        ELSE LET i == CHOOSE j \in at : \A h \in at : j <= h
             IN  SubSeq(f, 1, i - 1) \o SubSeq(f, i + 4, Len(f))

\* files.filter((f) => f.endsWith(".png")).map((f) => f.replace(".png", ""))
DiskKeyList(d) == { RemovePng(f) : f \in { g \in Files : d[g].exists /\ EndsWithPng(g) } }

\* app.get("/health"): the answer is built and sent in one step
HealthCall ==
    /\ probe.kind \in {"none", "health", "stats"}
    /\ probe.kind = "stats" => probe.pc = "done"
    /\ probe' = [kind |-> "health", pc |-> "done", status |-> 200,
                 ram_entries |-> Len(ram_cache),
                 max_ram_size |-> MAX_RAM_CACHE_SIZE]
    /\ UNCHANGED <<ram_cache, disk, not_clear>>

\* app.get("/cache"): the keys of ram_cache are taken, fs.readdir is called
StatsStart ==
    /\ probe.kind \in {"none", "health", "stats"}
    /\ probe.kind = "stats" => probe.pc = "done"
    /\ probe' = [kind |-> "stats", pc |-> "readdir", status |-> 0,
                 ram_entries |-> RamKeyList(ram_cache),
                 disk_entries |-> {}, failed |-> FALSE]
    /\ UNCHANGED <<ram_cache, disk, not_clear>>

\* fs.readdir settles (when it rejects disk_entries stays empty) and the
\* JSON answer is sent
StatsReaddir(ok) ==
    /\ probe.kind = "stats"
    /\ probe.pc = "readdir"
    /\ probe' = [probe EXCEPT
                    !.pc = "done", !.status = 200, !.failed = ~ok,
                    !.disk_entries = IF ok THEN DiskKeyList(disk) ELSE {}]
    /\ UNCHANGED <<ram_cache, disk, not_clear>>

NextStats ==
    \/ CleanupCache
    \/ HealthCall
    \/ StatsStart
    \/ \E ok \in BOOLEAN : StatsReaddir(ok)

SpecStats == InitClear /\ [][NextStats]_vars

----------------------------------------------------------------------------
(* The clock *)

Tick ==
    /\ now < MaxTicks * MsPerSec
    /\ now' = now + MsPerSec
    /\ UNCHANGED
          <<ram_cache, disk, writes, req, swept, apart, logged, del_done>>

----------------------------------------------------------------------------
(* The files of CACHE_DIR *)

\* fs.unlink
UnlinkFile(d, f) == [d EXCEPT ![f] = NoFile]

\* A descriptor opened before the unlink keeps writing to the removed inode
OrphanWrites(ws, f) ==
    { IF FileName(w.key) = f /\ w.stage = "write"
      THEN [w EXCEPT !.orphan = TRUE] ELSE w : w \in ws }

\* fs.writeFile, first half: open(path, "w") creates or truncates the file
OpenForWrite(d, f, t) ==
    [d EXCEPT ![f] = [exists |-> TRUE, content |-> PartialBuf, mtime |-> t]]

\* fs.writeFile, second half: the data is written through the descriptor
WriteContent(d, w, t) ==
    IF w.orphan THEN d
    ELSE [d EXCEPT ![FileName(w.key)] =
              [exists |-> TRUE, content |-> w.buffer, mtime |-> t]]

\* save_to_disk_cache reaches the open of fs.writeFile; an error is logged
WriteOpen(w, ok) ==
    /\ w \in writes
    /\ w.stage = "open"
    /\ IF ok
       THEN /\ disk' = OpenForWrite(disk, FileName(w.key), now)
            /\ writes' = (writes \ {w}) \cup {[w EXCEPT !.stage = "write"]}
       ELSE /\ disk' = disk
            /\ writes' = writes \ {w}
    /\ logged' = IF ok THEN logged ELSE logged + 1
    /\ UNCHANGED <<now, ram_cache, req, swept, apart, del_done>>

\* fs.writeFile writes the buffer and closes; an error is logged
WriteData(w, ok) ==
    /\ w \in writes
    /\ w.stage = "write"
    /\ disk' = IF ok THEN WriteContent(disk, w, now) ELSE disk
    /\ writes' = writes \ {w}
    /\ logged' = IF ok THEN logged ELSE logged + 1
    /\ UNCHANGED <<now, ram_cache, req, swept, apart, del_done>>

----------------------------------------------------------------------------
(* cache_image *)

\* a cache_image that leaves the memory tier as it is
DiskOnly(m, k, buf, t) == m

\* ram_cache.set(cache_key, { buffer, timestamp })
cache_image(m, k, buf, t) == RamSet(m, k, buf, t)

\* save_to_disk_cache(cache_key, buffer), not awaited
ScheduleWrite(ws, k, buf) ==
    ws \cup {[key |-> k, buffer |-> buf, stage |-> "open", orphan |-> FALSE]}

----------------------------------------------------------------------------
(* GET /og *)

\* the header of the RAM path on every hit
CacheStatusRamOnly(source) == "HIT-RAM"

\* `HIT-${cached_result.source.toUpperCase()}`
CacheStatus(source) == IF source = "ram" THEN "HIT-RAM" ELSE "HIT-DISK"

\* get_cached_image returned { buffer, source }: the handler answers with it
HitResponse(q, source, buf) ==
    [q EXCEPT !.pc = "done", !.lookup = source, !.status = 200,
              !.xcache = CacheStatus(source), !.body = buf]

\* get_cached_image returned null: headers are set, generate_image is called
MissStart(q) ==
    [q EXCEPT !.pc = "render", !.lookup = "null", !.xcache = "MISS",
              !.rendered = TRUE, !.seen = 0]

\* cache_image reached on both exits of generate_image
StoreAlways(ok, m, k, buf, t) == cache_image(m, k, buf, t)

\* the memory tier after generate_image settled: cached only on success
StoreAfterRender(ok, m, k, buf, t) == IF ok THEN cache_image(m, k, buf, t) ELSE m

\* request r is the next to arrive: requests are numbered in arrival order
Arrives(r) == req[r].kind = "none" /\ \A q \in 1 .. (r - 1) : req[q].kind # "none"

\* the requests whose cache_image call for key k has happened
Cached(k) == { h \in Reqs : req[h].cached_at >= 0 /\ req[h].key = k }

\* the request arrives; get_cached_image looks in the RAM cache
OgStart(r, k) ==
    /\ Arrives(r)
    /\ LET q == [NoReq EXCEPT !.kind = "og", !.key = k,
                              !.after_del = del_done[k],
                              !.seen = Cardinality(Cached(k))]
       IN  IF RamHas(ram_cache, k) /\ RamFresh(RamGet(ram_cache, k), now)
           THEN /\ req' = [req EXCEPT ![r] =
                               HitResponse(q, "ram", RamGet(ram_cache, k).buffer)]
                /\ ram_cache' = ram_cache
           ELSE /\ req' = [req EXCEPT ![r] = [q EXCEPT !.pc = "stat"]]
                /\ ram_cache' = RamDelete(ram_cache, k)
    /\ UNCHANGED <<now, disk, writes, swept, apart, logged, del_done>>

\* a disk hit that is not promoted
NoPromotion(m, k, buf, t) == m

\* a promotion that keeps the age of the file
PromoteAtMtime(m, k, buf, t) == RamSet(m, k, buf, disk[FileName(k)].mtime)

\* get_cached_image: ram_cache.set(cache_key, { buffer: disk_buffer,
\* timestamp: Date.now() })
Promote(m, k, buf, t) == RamSet(m, k, buf, t)

\* an fs.unlink that leaves the file where it is
KeepFile(d, f) == d

\* get_from_disk_cache: fs.unlink(file_path) of the expired file
ExpireFile(d, f) == UnlinkFile(d, f)

\* a disk error that is thrown to the handler of the request
DiskErrorThrown(q) ==
    [q EXCEPT !.pc = "done", !.status = 500, !.disk_error = TRUE]

\* get_from_disk_cache: catch { return null }, for an I/O error on a file
\* that is there
DiskError(q) == [MissStart(q) EXCEPT !.disk_error = TRUE]

\* get_from_disk_cache: fs.stat and the expiry test; fs.stat of a file that
\* is there may fail (ok is false)
OgStat(r, ok) ==
    /\ req[r].kind = "og"
    /\ req[r].pc = "stat"
    /\ LET f == disk[FileName(req[r].key)]
       IN  /\ ~ok => f.exists
           /\ req' = [req EXCEPT ![r] =
                       IF ~f.exists THEN MissStart(@)
                       ELSE IF ~ok THEN DiskError(@)
                       ELSE IF DiskExpired(f, now) THEN [@ EXCEPT !.pc = "unlink"]
                       ELSE [@ EXCEPT !.pc = "read"]]
    /\ UNCHANGED
          <<now, ram_cache, disk, writes, swept, apart, logged, del_done>>

\* get_from_disk_cache: await fs.unlink(file_path).catch(() => {}) of the
\* expired file, return null; fs.unlink of a file that is there may fail (ok
\* is false), which is ignored
OgUnlink(r, ok) ==
    /\ req[r].kind = "og"
    /\ req[r].pc = "unlink"
    /\ LET f == FileName(req[r].key)
       IN  /\ ~ok => disk[f].exists
           /\ IF ok
              THEN /\ disk' = ExpireFile(disk, f)
                   /\ writes' = OrphanWrites(writes, f)
                   /\ req' = [req EXCEPT ![r] = MissStart(@)]
              ELSE /\ disk' = disk
                   /\ writes' = writes
                   /\ req' = [req EXCEPT ![r] = DiskError(@)]
    /\ UNCHANGED <<now, ram_cache, swept, apart, logged, del_done>>

\* get_from_disk_cache: fs.readFile; get_cached_image promotes what it read;
\* fs.readFile of a file that is there may fail (ok is false)
OgRead(r, ok) ==
    /\ req[r].kind = "og"
    /\ req[r].pc = "read"
    /\ LET f == disk[FileName(req[r].key)]
       IN  /\ ~ok => f.exists
           /\ IF ~f.exists
              THEN /\ ram_cache' = ram_cache
                   /\ req' = [req EXCEPT ![r] = MissStart(@)]
              ELSE IF ~ok
              THEN /\ ram_cache' = ram_cache
                   /\ req' = [req EXCEPT ![r] = DiskError(@)]
              ELSE /\ ram_cache' =
                       Promote(ram_cache, req[r].key, f.content, now)
                   /\ req' = [req EXCEPT ![r] =
                                  HitResponse(@, "disk", f.content)]
    /\ UNCHANGED <<now, disk, writes, swept, apart, logged, del_done>>

\* generate_image returns the screenshot; cache_image; the image is sent
OgRenderOk(r) ==
    /\ req[r].kind = "og"
    /\ req[r].pc = "render"
    /\ LET k == req[r].key
           buf == Image(k, r)
       IN  /\ ram_cache' = StoreAfterRender(TRUE, ram_cache, k, buf, now)
           /\ writes' = ScheduleWrite(writes, k, buf)
           /\ req' = [q \in Reqs |->
                        IF q = r
                        THEN [req[q] EXCEPT !.pc = "done", !.status = 200,
                                            !.body = buf, !.cached_at = now]
                        ELSE IF req[q].key = k
                        THEN [req[q] EXCEPT !.after_del = FALSE]
                        ELSE req[q]]
           /\ del_done' = [del_done EXCEPT ![k] = FALSE]
    /\ UNCHANGED <<now, disk, swept, apart, logged>>

\* generate_image throws; the catch block answers 500
OgRenderFail(r) ==
    /\ req[r].kind = "og"
    /\ req[r].pc = "render"
    /\ ram_cache' = StoreAfterRender(FALSE, ram_cache, req[r].key, NoBuf, now)
    /\ req' = [req EXCEPT ![r] = [@ EXCEPT !.pc = "done", !.status = 500]]
    /\ UNCHANGED <<now, disk, writes, swept, apart, logged, del_done>>

----------------------------------------------------------------------------
(* DELETE /cache/:key *)

\* decodeURIComponent(key); ram_cache.delete(decoded_key); fs.unlink is
\* called. When decodeURIComponent throws, the handler rejects and the
\* framework answers 500.
DelStart(r, p) ==
    /\ Arrives(r)
    /\ LET decoded_key == decodeURIComponent(p)
       IN  IF Throws(decoded_key)
           THEN /\ req' = [req EXCEPT ![r] =
                               [NoReq EXCEPT !.kind = "del", !.pc = "done",
                                             !.key = p, !.status = 500]]
                /\ ram_cache' = ram_cache
           ELSE /\ req' = [req EXCEPT ![r] =
                               [NoReq EXCEPT
                                   !.kind = "del", !.pc = "unlink",
                                   !.key = decoded_key,
                                   !.ram_deleted = RamHas(ram_cache, decoded_key)]]
                /\ ram_cache' = RamDelete(ram_cache, decoded_key)
    /\ UNCHANGED <<now, disk, writes, swept, apart, logged, del_done>>

\* fs.unlink settles; the JSON answer is sent
DelUnlink(r) ==
    /\ req[r].kind = "del"
    /\ req[r].pc = "unlink"
    /\ LET f == FileName(req[r].key)
       IN  /\ disk' = UnlinkFile(disk, f)
           /\ writes' = OrphanWrites(writes, f)
           /\ req' = [req EXCEPT ![r] =
                          [@ EXCEPT !.pc = "done", !.status = 200,
                                    !.disk_deleted = disk[f].exists]]
    /\ del_done' = [del_done EXCEPT ![req[r].key] = TRUE]
    /\ UNCHANGED <<now, ram_cache, swept, apart, logged>>

----------------------------------------------------------------------------
Next ==
    \/ Tick
    \/ CleanupCache
    \/ \E r \in Reqs, k \in Keys : OgStart(r, k)
    \/ \E r \in Reqs, ok \in BOOLEAN : OgStat(r, ok)
    \/ \E r \in Reqs, ok \in BOOLEAN : OgUnlink(r, ok)
    \/ \E r \in Reqs, ok \in BOOLEAN : OgRead(r, ok)
    \/ \E r \in Reqs : OgRenderOk(r)
    \/ \E r \in Reqs : OgRenderFail(r)
    \/ \E r \in Reqs, p \in DelParams : DelStart(r, p)
    \/ \E r \in Reqs : DelUnlink(r)
    \/ \E w \in writes, ok \in BOOLEAN : WriteOpen(w, ok)
    \/ \E w \in writes, ok \in BOOLEAN : WriteData(w, ok)

Spec == Init /\ [][Next]_vars

-----------------------------------------------------------------------------
(* require_auth in front of DELETE /cache and DELETE /cache/:key: one request
   with any Authorization header, under any setting of ADMIN_TOKEN *)

\* process.env.ADMIN_TOKEN: not set, set to a secret, set to the empty string
AdminTokens ==
    { [set |-> FALSE, value |-> ""],
      [set |-> TRUE, value |-> "s3cret"],
      [set |-> TRUE, value |-> ""] }

\* c.req.header("Authorization"): undefined when the header is absent
AuthHeaders ==
    { [present |-> FALSE, value |-> ""] }
      \cup { [present |-> TRUE, value |-> v] :
               v \in { "", "s3cret", "Bearer ", "Bearer s3cret",
                       "Bearer other", "Bearer undefined" } }

\* `${process.env.ADMIN_TOKEN}`: undefined is rendered as "undefined"
TemplateValue(env) == IF env.set THEN env.value ELSE "undefined"

\* !token || token !== `Bearer ${process.env.ADMIN_TOKEN}`
Unauthorized(token, env) ==
    \/ ~token.present
    \/ token.value = ""
    \/ token.value # "Bearer " \o TemplateValue(env)

InitAuth ==
    /\ now = 0
    /\ ram_cache \in ClearMaps
    /\ disk \in ClearDisks
    /\ writes = {}
    /\ req = [r \in Reqs |-> NoReq]
    /\ swept = NotSwept
    /\ del_done = [k \in Keys |-> FALSE]
    /\ logged = 0
    /\ gen = NoGen
    /\ \E env \in AdminTokens, token \in AuthHeaders,
          route \in {"/cache", "/cache/:key"} :
          probe = [kind |-> "auth", env |-> env, token |-> token,
                   route |-> route, status |-> 0]

\* require_auth: return c.json({ error: "Unauthorized" }, 401)
AuthReject ==
    /\ probe.kind = "auth"
    /\ Unauthorized(probe.token, probe.env)
    /\ probe' = [probe EXCEPT !.kind = "denied", !.status = 401]
    /\ UNCHANGED <<ram_cache, disk, not_clear>>

\* require_auth: return await next(), into the handler of DELETE /cache
AuthClear ==
    /\ probe.kind = "auth"
    /\ probe.route = "/cache"
    /\ ~Unauthorized(probe.token, probe.env)
    /\ probe' = [kind |-> "clear", pc |-> "readdir",
                 ram_cleared |-> Len(ram_cache), disk_cleared |-> 0,
                 png_files |-> {}, pending |-> {}, rejected |-> FALSE,
                 status |-> 0, env |-> probe.env, token |-> probe.token,
                 route |-> probe.route]
    /\ ram_cache' = <<>>
    /\ UNCHANGED <<disk, not_clear>>

\* require_auth: return await next(), into the handler of DELETE /cache/:key
AuthDelete(p) ==
    /\ probe.kind = "auth"
    /\ probe.route = "/cache/:key"
    /\ ~Unauthorized(probe.token, probe.env)
    /\ DelStart(1, p)

NextAuth ==
    \/ AuthReject
    \/ AuthClear
    \/ \E p \in DelParams : AuthDelete(p)
    \/ DelUnlink(1)
    \/ \E ok \in BOOLEAN : ClearReaddir(ok)
    \/ \E f \in Files, ok \in BOOLEAN : ClearUnlink(f, ok)
    \/ ClearSettle
    \/ ClearRespond

SpecAuth == InitAuth /\ [][NextAuth]_vars

----------------------------------------------------------------------------
(* Cache keys: validate_og_params and the key template of GET /og,
   generate_cache_key of the Deno variant *)

\* longest title, and longest author and website, of the queries derived from
MaxTitleLen == 2
MaxOtherLen == 1

\* title.length > 200, author.length > 100
TITLE_MAX == 200
FIELD_MAX == 100

\* Characters of parameter values: a letter, white space, the separator
Chars == { "a", " ", "-" }

Str(n) == UNION { [1 .. k -> Chars] : k \in 0 .. n }

\* a parameter the query does not have
Undefined == <<"undefined">>

Light == <<"l", "i", "g", "h", "t">>
Dark == <<"d", "a", "r", "k">>
Anonymous == <<"A", "n", "o", "n", "y", "m", "o", "u", "s">>
ExampleCom == <<"e", "x", "a", "m", "p", "l", "e", ".", "c", "o", "m">>

\* the parameter names, in the order of Array.prototype.sort
ParamNames == <<"author", "theme", "title", "website">>

\* what the query string gives each name
Mappings ==
    [title : Str(MaxTitleLen) \cup {Undefined},
     author : Str(MaxOtherLen) \cup {Undefined},
     website : Str(MaxOtherLen) \cup {Undefined},
     theme : {Undefined, Light, Dark, <<"a">>}]

Orders ==
    { o \in [1 .. Len(ParamNames) -> 1 .. Len(ParamNames)] :
        \A i, j \in 1 .. Len(ParamNames) : i # j => o[i] # o[j] }

InOrder == [i \in 1 .. Len(ParamNames) |-> i]

ValueOf(m, n) ==
    CASE n = "title" -> m.title
      [] n = "author" -> m.author
      [] n = "website" -> m.website
      [] n = "theme" -> m.theme

\* the name=value pairs of mapping m, supplied in order o
Supplied(m, o) ==
    LET all == [i \in 1 .. Len(ParamNames) |->
                   [name |-> ParamNames[o[i]],
                    value |-> ValueOf(m, ParamNames[o[i]])]]
    IN  SelectSeq(all, LAMBDA pr : pr.value # Undefined)

\* obj[n] of an object given by its name/value pairs in insertion order
Property(pairs, n) ==
    IF \E i \in 1 .. Len(pairs) : pairs[i].name = n
    THEN pairs[CHOOSE i \in 1 .. Len(pairs) :
                  /\ pairs[i].name = n
                  /\ \A j \in 1 .. (i - 1) : pairs[j].name # n].value
    ELSE Undefined

\* const { title, author, website, theme } = c.req.query()
Destructure(pairs) ==
    [title |-> Property(pairs, "title"), author |-> Property(pairs, "author"),
     website |-> Property(pairs, "website"), theme |-> Property(pairs, "theme")]

RECURSIVE TrimStart(_)
TrimStart(s) ==
    IF s = <<>> \/ Head(s) # " " THEN s ELSE TrimStart(Tail(s))

RECURSIVE TrimEnd(_)
TrimEnd(s) ==
    IF s = <<>> \/ s[Len(s)] # " " THEN s ELSE TrimEnd(SubSeq(s, 1, Len(s) - 1))

\* String.prototype.trim
trim(s) == TrimEnd(TrimStart(s))

\* a string that is neither undefined nor empty
Truthy(v) == v # Undefined /\ v # <<>>

\* v || d, with no trim
UntrimmedOr(v, d) == IF v # Undefined /\ v # <<>> THEN v ELSE d

\* v?.trim() || d
TrimOr(v, d) ==
    IF v # Undefined /\ trim(v) # <<>> THEN trim(v) ELSE d

\* a validation that accepts every query
AcceptAll(query) ==
    [valid |-> TRUE,
     params |-> [title |-> <<"a">>, author |-> <<"A">>, website |-> <<"e">>,
                 theme |-> <<"l">>]]

NoParams == [title |-> <<>>, author |-> <<>>, website |-> <<>>, theme |-> <<>>]

Invalid == [valid |-> FALSE, params |-> NoParams]

validate_og_params(query) ==
    IF ~Truthy(query.title) \/ trim(query.title) = <<>> THEN Invalid
    ELSE IF Len(query.title) > TITLE_MAX THEN Invalid
    ELSE IF Truthy(query.author) /\ Len(query.author) > FIELD_MAX THEN Invalid
    ELSE IF Truthy(query.website) /\ Len(query.website) > FIELD_MAX THEN Invalid
    ELSE IF Truthy(query.theme) /\ query.theme \notin {Light, Dark} THEN Invalid
    ELSE [valid |-> TRUE,
          params |-> [title |-> trim(query.title),
                      author |-> TrimOr(query.author, Anonymous),
                      website |-> TrimOr(query.website, ExampleCom),
                      theme |-> IF Truthy(query.theme) THEN query.theme
                                ELSE Light]]

\* `${params.title}-${params.author}-${params.website}-${params.theme}`
cache_key(params) ==
    params.title \o <<"-">> \o params.author \o <<"-">> \o params.website
        \o <<"-">> \o params.theme

\* the status and the X-Cache-Key of GET /og with the given query string
OgKey(pairs) ==
    LET validation == validate_og_params(Destructure(pairs))
    IN  IF validation.valid
        THEN [status |-> 200, key |-> cache_key(validation.params)]
        ELSE [status |-> 400, key |-> <<>>]

\* Object.keys(template_data)
ObjectKeys(pairs) == [i \in 1 .. Len(pairs) |-> pairs[i].name]

NameRank(n) == CHOOSE i \in 1 .. Len(ParamNames) : ParamNames[i] = n

RECURSIVE InsertByName(_, _)
InsertByName(names, n) ==
    IF names = <<>> THEN <<n>>
    ELSE IF NameRank(n) < NameRank(Head(names)) THEN <<n>> \o names
    ELSE <<Head(names)>> \o InsertByName(Tail(names), n)

RECURSIVE SortNames(_)
SortNames(names) ==
    IF names = <<>> THEN <<>>
    ELSE InsertByName(SortNames(SubSeq(names, 1, Len(names) - 1)),
                      names[Len(names)])

\* the keys as Object.keys gives them, not sorted
KeysAsInserted(names) == names

\* Object.keys(template_data).sort()
SortedKeys(names) == SortNames(names)

\* .reduce((result, key) => { result[key] = template_data[key]; ... }, {})
SortedData(pairs) ==
    LET keys == SortedKeys(ObjectKeys(pairs))
    IN  [i \in 1 .. Len(keys) |->
            [name |-> keys[i], value |-> Property(pairs, keys[i])]]

RECURSIVE JsonMembers(_)
JsonMembers(pairs) ==
    IF pairs = <<>> THEN <<>>
    ELSE <<"dquote", Head(pairs).name, "dquote", ":", "dquote">>
            \o Head(pairs).value \o <<"dquote">>
            \o (IF Len(pairs) > 1 THEN <<",">> ELSE <<>>)
            \o JsonMembers(Tail(pairs))

\* JSON.stringify of an object of strings (none of Chars needs an escape)
JsonStringify(pairs) == <<"{">> \o JsonMembers(pairs) \o <<"}">>

\* the SHA-256 digest in hexadecimal: a value determined by the text hashed
Sha256Hex(text) == [digest |-> "SHA-256", of |-> text]

generate_cache_key(template_data) ==
    Sha256Hex(JsonStringify(SortedData(template_data)))

\* A second query with the same effective parameters as mapping m: the
\* values padded with white space, the missing optional parameters supplied
\* empty, or supplied with the value validate_og_params defaults them to
Pad(v) == IF v = Undefined THEN v ELSE <<" ">> \o v \o <<" ">>

Defaulted(v, d) == IF v = Undefined \/ trim(v) = <<>> THEN d ELSE v

Variation(m, how) ==
    CASE how = "reordered" -> m
      [] how = "padded" ->
            [m EXCEPT !.title = Pad(@), !.author = Pad(@), !.website = Pad(@)]
      [] how = "emptied" ->
            [m EXCEPT !.author = IF @ = Undefined THEN <<>> ELSE @,
                      !.website = IF @ = Undefined THEN <<>> ELSE @,
                      !.theme = IF @ = Undefined THEN <<>> ELSE @]
      [] how = "defaulted" ->
            [m EXCEPT !.author = Defaulted(@, Anonymous),
                      !.website = Defaulted(@, ExampleCom),
                      !.theme = IF @ = Undefined THEN Light ELSE @]

Seconds ==
    [how : {"reordered"}, order : Orders]
        \cup [how : {"padded", "emptied", "defaulted"}, order : {InOrder}]

NoKey == [status |-> 0, key |-> <<>>]

NoDigest == [digest |-> "", of |-> <<>>]

InitKey ==
    /\ now = 0
    /\ ram_cache = <<>>
    /\ disk = [f \in Files |-> NoFile]
    /\ writes = {}
    /\ req = [r \in Reqs |-> NoReq]
    /\ swept = NotSwept
    /\ del_done = [k \in Keys |-> FALSE]
    /\ logged = 0
    /\ gen = NoGen
    /\ \E m \in Mappings, snd \in Seconds :
          probe = [kind |-> "key", mapping |-> m, second |-> snd,
                   done |-> FALSE, og_first |-> NoKey, og_second |-> NoKey,
                   deno_first |-> NoDigest, deno_second |-> NoDigest]

\* two requests: the mapping in the order of ParamNames, and the second query
DeriveKeys ==
    /\ probe.kind = "key"
    /\ ~probe.done
    /\ LET m == probe.mapping
           m2 == Variation(m, probe.second.how)
           o == probe.second.order
       IN  probe' = [probe EXCEPT
                        !.done = TRUE,
                        !.og_first = OgKey(Supplied(m, InOrder)),
                        !.og_second = OgKey(Supplied(m2, o)),
                        !.deno_first = generate_cache_key(Supplied(m, InOrder)),
                        !.deno_second = generate_cache_key(Supplied(m, o))]
    /\ UNCHANGED
          <<now, ram_cache, disk, writes, req, swept, del_done, logged, gen>>

SpecKey == InitKey /\ [][DeriveKeys]_vars

\* Two requests with any titles and authors
PairMappings ==
    [title : Str(MaxTitleLen) \cup {Undefined},
     author : Str(MaxTitleLen) \cup {Undefined},
     website : {Undefined},
     theme : {Undefined, Dark}]

InitKeyPair ==
    /\ now = 0
    /\ ram_cache = <<>>
    /\ disk = [f \in Files |-> NoFile]
    /\ writes = {}
    /\ req = [r \in Reqs |-> NoReq]
    /\ swept = NotSwept
    /\ del_done = [k \in Keys |-> FALSE]
    /\ logged = 0
    /\ gen = NoGen
    /\ \E m1, m2 \in PairMappings :
          probe = [kind |-> "pair", first |-> m1, second |-> m2,
                   done |-> FALSE, og_first |-> NoKey, og_second |-> NoKey,
                   params_first |-> NoParams, params_second |-> NoParams]

DeriveKeyPair ==
    /\ probe.kind = "pair"
    /\ ~probe.done
    /\ LET q1 == Supplied(probe.first, InOrder)
           q2 == Supplied(probe.second, InOrder)
       IN  probe' = [probe EXCEPT
                        !.done = TRUE,
                        !.og_first = OgKey(q1),
                        !.og_second = OgKey(q2),
                        !.params_first =
                            validate_og_params(Destructure(q1)).params,
                        !.params_second =
                            validate_og_params(Destructure(q2)).params]
    /\ UNCHANGED
          <<now, ram_cache, disk, writes, req, swept, del_done, logged, gen>>

SpecKeyPair == InitKeyPair /\ [][DeriveKeyPair]_vars

-----------------------------------------------------------------------------
(* GET /og from its query string on: validate_og_params, then the lookup,
   the render and the disk write for the key of the accepted parameters *)

\* the string of n characters c
Rep(c, n) == [i \in 1 .. n |-> c]

\* Parameter values around the limits of validate_og_params: absent, empty,
\* blank, padded, of the greatest length accepted and one longer
TitleValues ==
    { Undefined, <<>>, <<" ">>, <<" ", "a", " ">>,
      Rep("a", TITLE_MAX), Rep("a", TITLE_MAX + 1),
      <<" ">> \o Rep("a", TITLE_MAX - 1) \o <<" ">> }

AuthorValues ==
    { Undefined, <<>>, <<" ">>, <<" ", "a">>,
      Rep("a", FIELD_MAX), Rep("a", FIELD_MAX + 1) }

WebsiteValues == { Undefined, <<" ">>, <<"a", " ">>, Rep(" ", FIELD_MAX + 1) }

ThemeValues == { Undefined, <<>>, Light, Dark, <<"a">>, <<" ">> }

Queries ==
    [title : TitleValues, author : AuthorValues, website : WebsiteValues,
     theme : ThemeValues]

\* c.req.query() of the query string that gives mapping m
QueryOf(m) == Destructure(Supplied(m, InOrder))

\* the key under which the image of the request is cached; for a query that
\* is refused, the key of another request, whose image the tiers may hold
StoredKey(m) ==
    LET validation == validate_og_params(QueryOf(m))
    IN  IF validation.valid THEN cache_key(validation.params)
        ELSE cache_key([title |-> <<"a">>, author |-> Anonymous,
                        website |-> ExampleCom, theme |-> Light])

InitValidate ==
    /\ now = 0
    /\ writes = {}
    /\ req = [r \in Reqs |-> NoReq]
    /\ swept = NotSwept
    /\ logged = 0
    /\ gen = NoGen
    /\ \E m \in Queries :
          LET k == StoredKey(m)
          IN  /\ probe = [kind |-> "og", query |-> m, status |-> 0]
              /\ ram_cache \in
                    { <<>>, <<[key |-> k, buffer |-> Image(k, NumReqs),
                               timestamp |-> 0]>> }
              /\ disk \in
                    { [f \in {FileName(k)} |-> NoFile],
                      [f \in {FileName(k)} |->
                          [exists |-> TRUE, content |-> Image(k, NumReqs),
                           mtime |-> 0]] }
              /\ del_done = [h \in {k} |-> FALSE]

\* if (!validation.valid) return c.json({ error: validation.error }, 400)
ValidateReject ==
    /\ probe.kind = "og"
    /\ probe.status = 0
    /\ ~validate_og_params(QueryOf(probe.query)).valid
    /\ probe' = [probe EXCEPT !.status = 400]
    /\ UNCHANGED <<ram_cache, disk, not_clear>>

\* const params = validation.params!; the cache key is built and
\* get_cached_image(cache_key) is called
ValidateAccept ==
    /\ probe.kind = "og"
    /\ LET validation == validate_og_params(QueryOf(probe.query))
       IN  /\ validation.valid
           /\ OgStart(1, cache_key(validation.params))

NextValidate ==
    \/ Tick
    \/ ValidateReject
    \/ ValidateAccept
    \/ \E ok \in BOOLEAN : OgStat(1, ok)
    \/ \E ok \in BOOLEAN : OgUnlink(1, ok)
    \/ \E ok \in BOOLEAN : OgRead(1, ok)
    \/ OgRenderOk(1)
    \/ OgRenderFail(1)
    \/ \E w \in writes, ok \in BOOLEAN : WriteOpen(w, ok)
    \/ \E w \in writes, ok \in BOOLEAN : WriteData(w, ok)

SpecValidate == InitValidate /\ [][NextValidate]_vars

\* validate_og_params on its own, applied to every query of Queries
InitParams ==
    /\ now = 0
    /\ ram_cache = <<>>
    /\ disk = [f \in Files |-> NoFile]
    /\ writes = {}
    /\ req = [r \in Reqs |-> NoReq]
    /\ swept = NotSwept
    /\ del_done = [k \in Keys |-> FALSE]
    /\ logged = 0
    /\ gen = NoGen
    /\ \E m \in Queries :
          probe = [kind |-> "params", query |-> m, done |-> FALSE,
                   validation |-> Invalid]

ApplyValidate ==
    /\ probe.kind = "params"
    /\ ~probe.done
    /\ probe' = [probe EXCEPT
                    !.done = TRUE,
                    !.validation = validate_og_params(QueryOf(probe.query))]
    /\ UNCHANGED <<ram_cache, disk, not_clear>>

SpecParams == InitParams /\ [][ApplyValidate]_vars

-----------------------------------------------------------------------------
(* The rate limiting middleware of app.use("*"), installed when NODE_ENV is
   "production": requests of two clients, as the clock advances *)

\* the max_requests of Number(process.env.RATE_LIMIT_MAX_REQUESTS) || 60 when
\* the variable is not set (60 in the source)
DEFAULT_MAX_REQUESTS == 3

\* the greatest RATE_LIMIT_MAX_REQUESTS that is configured
MaxConfigured == 2

\* RATE_LIMIT_WINDOW_MS as configured: one step of the clock
WindowMs == MsPerSec

\* the values of Number(process.env.RATE_LIMIT_MAX_REQUESTS); 0 stands for
\* a variable that is not set, empty, 0 or not a number
MaxRequestsEnv == 0 .. MaxConfigured

\* a limit that is never reached
Unlimited(raw) == DEFAULT_MAX_REQUESTS + raw + 1

\* Number(...) || 60
max_requests(raw) == IF raw = 0 THEN DEFAULT_MAX_REQUESTS ELSE raw

\* the headers x-forwarded-for and x-real-ip of a request; "" is absent
RateHeaders == [xff : {"", "10.0.0.1"}, xri : {"", "10.0.0.2"}]

\* c.req.header("x-forwarded-for") || c.req.header("x-real-ip") || "unknown"
client_ip(h) ==
    IF h.xff # "" THEN h.xff ELSE IF h.xri # "" THEN h.xri ELSE "unknown"

ClientIps == { client_ip(h) : h \in RateHeaders }

NoRecord == [count |-> 0, reset_time |-> -1]

\* request_counts is empty; passed counts, per client, the requests handed
\* to next() since the record of the client was last set
InitRate ==
    /\ now = 0
    /\ ram_cache = <<>>
    /\ disk = [f \in Files |-> NoFile]
    /\ writes = {}
    /\ req = [r \in Reqs |-> NoReq]
    /\ swept = NotSwept
    /\ del_done = [k \in Keys |-> FALSE]
    /\ logged = 0
    /\ gen = NoGen
    /\ \E production \in BOOLEAN, raw \in MaxRequestsEnv :
          probe = [kind |-> "rate", production |-> production, raw |-> raw,
                   request_counts |-> [c \in ClientIps |-> NoRecord],
                   passed |-> [c \in ClientIps |-> 0],
                   last |-> [client |-> "", status |-> 0, retry_after |-> 0]]

\* Math.ceil((client_data.reset_time - now) / 1000)
RetryAfter(reset_time, t) ==
    LET ms == reset_time - t
    IN  (ms \div MsPerSec) + (IF ms % MsPerSec = 0 THEN 0 ELSE 1)

\* a request with headers h goes through the middleware; 200 stands for
\* next(), the handler of the route
RateRequest(h) ==
    /\ probe.kind = "rate"
    /\ LET ip == client_ip(h)
           client_data == probe.request_counts[ip]
           limit == max_requests(probe.raw)
       IN  IF ~probe.production
           THEN probe' = [probe EXCEPT
                            !.last = [client |-> ip, status |-> 200,
                                      retry_after |-> 0]]
           ELSE IF client_data = NoRecord \/ now > client_data.reset_time
           THEN probe' = [probe EXCEPT
                            !.request_counts[ip] =
                                [count |-> 1, reset_time |-> now + WindowMs],
                            !.passed[ip] = 1,
                            !.last = [client |-> ip, status |-> 200,
                                      retry_after |-> 0]]
           ELSE IF client_data.count >= limit
           THEN probe' = [probe EXCEPT
                            !.last = [client |-> ip, status |-> 429,
                                      retry_after |->
                                         RetryAfter(client_data.reset_time, now)]]
           ELSE probe' = [probe EXCEPT
                            !.request_counts[ip].count = @ + 1,
                            !.passed[ip] = @ + 1,
                            !.last = [client |-> ip, status |-> 200,
                                      retry_after |-> 0]]
    /\ UNCHANGED <<ram_cache, disk, not_clear>>

NextRate ==
    \/ Tick
    \/ \E h \in RateHeaders : RateRequest(h)

SpecRate == InitRate /\ [][NextRate]_vars

----------------------------------------------------------------------------
(* image_generator.generate_image, in its three variants: "shared" (one
   browser kept in this.browser, src/utils/image-generator.ts), "retrying"
   (the same with up to three attempts, unnamed/part_004) and "fresh" (a
   browser per call, src/utils/template-renderer.ts) *)

\* number of concurrent generate_image calls
NumCalls == 2
\* number of browsers chromium.launch can start in one behaviour
MaxBrowsers == 3

\* let retries = 2
RETRIES == 2

Calls == 1 .. NumCalls

Variants == { "shared", "retrying", "fresh" }

NoCall ==
    [pc |-> "idle", attempt |-> 0, local |-> 0, target |-> 0, outcome |-> "",
     result |-> "", last_error |-> -1]

\* pc: where the call is; attempt: the loop variable; local: const browser;
\* target: the browser this.browser.close() was called on; outcome: how the
\* try block of the attempt ended; result: what the call returned or threw;
\* last_error: the attempt whose error lastError holds

\* variant: the variant of the class; browser: this.browser (0 for null);
\* open: the browsers running; launched: how many were started; pages: the
\* pages open, with the call that opened each; call: the calls
GenStart(v) ==
    [variant |-> v, browser |-> 0, is_initializing |-> FALSE, open |-> {},
     launched |-> 0, pages |-> {}, call |-> [k \in Calls |-> NoCall]]

InitGen ==
    /\ now = 0
    /\ ram_cache = <<>>
    /\ disk = [f \in Files |-> NoFile]
    /\ writes = {}
    /\ req = [r \in Reqs |-> NoReq]
    /\ swept = NotSwept
    /\ del_done = [k \in Keys |-> FALSE]
    /\ logged = 0
    /\ probe = NoProbe
    /\ \E v \in Variants : gen = GenStart(v)

not_gen ==
    <<now, ram_cache, disk, writes, req, swept, del_done, logged, probe>>

\* this.browser && this.browser.isConnected()
BrowserUsable(g) == g.browser # 0 /\ g.browser \in g.open

\* the browser b goes away (closed or crashed) with its pages; the
\* "disconnected" handler of the shared browser clears this.browser
Disconnect(g, b) ==
    [g EXCEPT !.open = @ \ {b},
              !.pages = { pg \in @ : pg.browser # b },
              !.browser = IF g.variant = "fresh" THEN @ ELSE 0]

\* an error thrown out of the attempt: caught by the retry loop of the
\* retrying variant, thrown to the caller by the other variants
Throw(g, k) ==
    LET c == [g.call[k] EXCEPT !.last_error = g.call[k].attempt]
    IN  IF g.variant = "retrying"
        THEN [g EXCEPT !.call[k] = [c EXCEPT !.pc = "catch"]]
        ELSE [g EXCEPT !.call[k] = [c EXCEPT !.pc = "done",
                                             !.result = "error"]]

\* a get_browser that does not look at is_initializing
GetBrowserUnserialised(g, k) ==
    IF BrowserUsable(g)
    THEN [g EXCEPT !.call[k].local = g.browser, !.call[k].pc = "newPage"]
    ELSE [g EXCEPT !.is_initializing = TRUE, !.call[k].pc = "launching"]

\* get_browser up to its first await
GetBrowser(g, k) ==
    IF BrowserUsable(g)
    THEN [g EXCEPT !.call[k].local = g.browser, !.call[k].pc = "newPage"]
    ELSE IF g.is_initializing
    THEN [g EXCEPT !.call[k].pc = "wait_init"]
    ELSE [g EXCEPT !.is_initializing = TRUE, !.call[k].pc = "launching"]

\* one attempt begins: get_browser(), or chromium.launch() of the fresh variant
BeginAttempt(g, k) ==
    LET g1 == [g EXCEPT !.call[k].local = 0, !.call[k].target = 0,
                        !.call[k].outcome = ""]
    IN  IF g.variant = "fresh"
        THEN [g1 EXCEPT !.call[k].pc = "launching"]
        ELSE GetBrowser(g1, k)

\* generate_image is called
GenCall(k) ==
    /\ gen.call[k].pc = "idle"
    /\ gen' = BeginAttempt(gen, k)
    /\ UNCHANGED not_gen

\* the 100 ms timer of the wait loop fires and finds is_initializing false
GenWaitInit(k) ==
    /\ gen.call[k].pc = "wait_init"
    /\ ~gen.is_initializing
    /\ gen' = GetBrowser(gen, k)
    /\ UNCHANGED not_gen

\* chromium.launch resolves or rejects
GenLaunch(k, ok) ==
    /\ gen.call[k].pc = "launching"
    /\ ok => gen.launched < MaxBrowsers
    /\ LET b == gen.launched + 1
           shared == gen.variant # "fresh"
           g1 == IF shared THEN [gen EXCEPT !.is_initializing = FALSE] ELSE gen
       IN  gen' =
             IF ok
             THEN [g1 EXCEPT !.launched = b,
                             !.open = @ \cup {b},
                             !.browser = IF shared THEN b ELSE @,
                             !.call[k].local = b,
                             !.call[k].pc = "newPage"]
             ELSE Throw(g1, k)
    /\ UNCHANGED not_gen

\* the page of call k that is open, if any
PagesOf(g, k) == { pg \in g.pages : pg.owner = k }

\* the call returns the screenshot of the current attempt
Return(g, k) ==
    [g EXCEPT !.call[k].pc = "done", !.call[k].result = "screenshot"]

\* browser.newPage() resolves or rejects
GenNewPage(k, ok) ==
    /\ gen.call[k].pc = "newPage"
    /\ ok => gen.call[k].local \in gen.open
    /\ gen' =
         IF ok
         THEN [gen EXCEPT !.pages = @ \cup {[owner |-> k,
                                             browser |-> gen.call[k].local]},
                          !.call[k].pc = "render"]
         ELSE IF gen.variant = "fresh"
         THEN [gen EXCEPT !.call[k].outcome = "error",
                          !.call[k].last_error = gen.call[k].attempt,
                          !.call[k].pc = "close_browser"]
         ELSE Throw(gen, k)
    /\ UNCHANGED not_gen

\* setViewportSize, setContent, the wait for fonts and screenshot: the
\* screenshot is taken, or one of them throws
GenRender(k, ok) ==
    /\ gen.call[k].pc = "render"
    /\ ok => PagesOf(gen, k) # {}
    /\ gen' = [gen EXCEPT !.call[k].outcome = IF ok THEN "ok" ELSE "error",
                          !.call[k].pc = "close_page"]
    /\ UNCHANGED not_gen

\* a finally block that leaves the page as it is
LeavePage(g, k) == g

\* page.close()
ClosePage(g, k) == [g EXCEPT !.pages = @ \ PagesOf(g, k)]

\* finally { await page.close() }: the page is closed; the close rejects
\* only when the page has gone with its browser
GenClosePage(k, rejects) ==
    /\ gen.call[k].pc = "close_page"
    /\ rejects => PagesOf(gen, k) = {}
    /\ LET g1 == ClosePage(gen, k)
           ok == g1.call[k].outcome = "ok"
       IN  gen' =
             CASE gen.variant = "fresh" ->
                    [g1 EXCEPT !.call[k].pc = "close_browser",
                               !.call[k].last_error =
                                   IF ok THEN @ ELSE g1.call[k].attempt]
               [] gen.variant = "retrying" ->
                    IF ok THEN Return(g1, k) ELSE Throw(g1, k)
               [] gen.variant = "shared" ->
                    IF ok /\ ~rejects THEN Return(g1, k) ELSE Throw(g1, k)
    /\ UNCHANGED not_gen

\* fresh variant: finally { if (browser) await browser.close().catch() }
GenCloseBrowser(k) ==
    /\ gen.call[k].pc = "close_browser"
    /\ LET g1 == Disconnect(gen, gen.call[k].local)
       IN  gen' =
             IF g1.call[k].outcome = "ok"
             THEN Return(g1, k)
             ELSE [g1 EXCEPT !.call[k].pc = "done",
                             !.call[k].result = "error"]
    /\ UNCHANGED not_gen

\* a retry loop without the test of attempt against retries
RetryAlways(g, k) == [g EXCEPT !.call[k].pc = "backoff"]

\* retrying variant, after the browser was closed or was not there:
\* if (attempt === retries) throw lastError, else wait before the retry
AfterClose(g, k) ==
    IF g.call[k].attempt = RETRIES
    THEN [g EXCEPT !.call[k].pc = "done", !.call[k].result = "error"]
    ELSE [g EXCEPT !.call[k].pc = "backoff"]

\* retrying variant: catch (error) { ...; if (this.browser) close it
GenCatch(k) ==
    /\ gen.call[k].pc = "catch"
    /\ gen' =
         IF gen.browser # 0
         THEN [gen EXCEPT !.call[k].target = gen.browser,
                          !.call[k].pc = "closing_browser"]
         ELSE AfterClose(gen, k)
    /\ UNCHANGED not_gen

\* the browser being closed by this.browser.close() goes away
GenBrowserGone(k) ==
    /\ gen.call[k].pc = "closing_browser"
    /\ gen' = [Disconnect(gen, gen.call[k].target) EXCEPT
                  !.call[k].pc = "closed_browser"]
    /\ UNCHANGED not_gen

\* await this.browser.close() returns; this.browser = null
GenBrowserClosed(k) ==
    /\ gen.call[k].pc = "closed_browser"
    /\ gen' = AfterClose([gen EXCEPT !.browser = 0], k)
    /\ UNCHANGED not_gen

\* the 1000 ms wait before the retry is over; attempt++
GenBackoff(k) ==
    /\ gen.call[k].pc = "backoff"
    /\ gen' = BeginAttempt([gen EXCEPT !.call[k].attempt = @ + 1], k)
    /\ UNCHANGED not_gen

\* a browser crashes
GenCrash(b) ==
    /\ b \in gen.open
    /\ gen' = Disconnect(gen, b)
    /\ UNCHANGED not_gen

GenStep(k) ==
    \/ GenCall(k)
    \/ GenWaitInit(k)
    \/ \E ok \in BOOLEAN : GenLaunch(k, ok)
    \/ \E ok \in BOOLEAN : GenNewPage(k, ok)
    \/ \E ok \in BOOLEAN : GenRender(k, ok)
    \/ \E rejects \in BOOLEAN : GenClosePage(k, rejects)
    \/ GenCloseBrowser(k)
    \/ GenCatch(k)
    \/ GenBrowserGone(k)
    \/ GenBrowserClosed(k)
    \/ GenBackoff(k)

NextGen ==
    \/ \E k \in Calls : GenStep(k)
    \/ \E b \in 1 .. MaxBrowsers : GenCrash(b)

SpecGen == InitGen /\ [][NextGen]_vars

\* every step of a call that has begun is eventually taken
SpecGenFair == SpecGen /\ \A k \in Calls : WF_vars(GenStep(k))

\* the steps of a call other than the settling of the awaits of
\* setViewportSize, setContent and screenshot on a page that is open, for
\* which generate_image sets no timeout; on a page that has gone with its
\* browser they reject
GenSettles(k) ==
    \/ GenCall(k)
    \/ PagesOf(gen, k) = {} /\ GenRender(k, FALSE)
    \/ GenWaitInit(k)
    \/ \E ok \in BOOLEAN : GenLaunch(k, ok)
    \/ \E ok \in BOOLEAN : GenNewPage(k, ok)
    \/ \E rejects \in BOOLEAN : GenClosePage(k, rejects)
    \/ GenCloseBrowser(k)
    \/ GenCatch(k)
    \/ GenBrowserGone(k)
    \/ GenBrowserClosed(k)
    \/ GenBackoff(k)

\* a renderer that may hang: every step of a call is eventually taken, except
\* that the page may never answer
SpecGenHang == SpecGen /\ \A k \in Calls : WF_vars(GenSettles(k))

\* the event loop runs every fs.writeFile in progress to its end
SpecFair ==
    /\ Spec
    /\ WF_vars(\E w \in writes, ok \in BOOLEAN : WriteOpen(w, ok))
    /\ WF_vars(\E w \in writes, ok \in BOOLEAN : WriteData(w, ok))

----------------------------------------------------------------------------
(* Vocabulary of the properties *)

IsOg(q) == q.kind = "og"

IsDel(q) == q.kind = "del"

\* get_cached_image of q has returned
LookedUp(q) == IsOg(q) /\ q.lookup # ""

\* get_cached_image of q has returned { buffer, source }
IsHit(q) == IsOg(q) /\ q.lookup \in {"ram", "disk"}

\* the request's get_cached_image returns in this step
LookupReturns(r) == IsOg(req'[r]) /\ req[r].lookup = "" /\ req'[r].lookup # ""

----------------------------------------------------------------------------
\* C1: concurrent GET /og requests for one cache key that is in neither tier
\* share a single render: at no time are two invocations of generate_image
\* for the same key in progress.
C1_SingleRenderPerKey ==
    \A r1, r2 \in Reqs :
        (r1 # r2 /\ req[r1].pc = "render" /\ req[r2].pc = "render")
            => req[r1].key # req[r2].key

\* C2: bytes stored by a cache_image call at time t are returned by a
\* get_cached_image that began after it only at times before t + TTL, unless
\* a later cache_image call for the same key happened.
C2_NotServedPastTTL ==
    [][\A r \in Reqs :
          ( /\ LookupReturns(r)
            /\ req[r].seen >= 1
            /\ IsHit(req'[r])
            /\ IsComplete(req'[r].body) )
              => LET g == req'[r].body.gen
                 IN  \/ now' < req[g].cached_at + TTL_MS
                     \/ \E h \in Cached(req[g].key) :
                            h # g /\ req[h].cached_at >= req[g].cached_at]_vars

\* the memory tier or the disk tier holds the bytes buf for key k
Held(k, buf) ==
    \/ RamHas(ram_cache, k) /\ RamGet(ram_cache, k).buffer = buf
    \/ disk[FileName(k)].exists /\ disk[FileName(k)].content = buf

\* C3: after a single cache_image(key, bytes) at time t, no other write and
\* no deletion of the key, a get_cached_image(key) that began after it
\* returns those bytes when it returns before t + TTL, whichever tier holds
\* them and no disk error occurs, and null when it returns after t + TTL.
C3_ServableExactlyWithinTTL ==
    [][\A r \in Reqs :
          ( /\ LookupReturns(r)
            /\ req[r].seen = 1
            /\ Cardinality(Cached(req[r].key)) = 1
            /\ ~req'[r].disk_error
            /\ \A d \in Reqs : IsDel(req[d]) => req[d].key # req[r].key )
              => LET g == CHOOSE h \in Cached(req[r].key) : TRUE
                     t == req[g].cached_at
                 IN  /\ (now' < t + TTL_MS /\ Held(req[r].key, Image(req[r].key, g)))
                           => /\ IsHit(req'[r])
                              /\ req'[r].body = Image(req[r].key, g)
                     /\ now' > t + TTL_MS => req'[r].lookup = "null"]_vars

\* C4: the memory tier never holds more than MAX_RAM_CACHE_SIZE entries.
C4_RamWithinCapacity == Len(ram_cache) <= MAX_RAM_CACHE_SIZE

Entries(m) == { m[i] : i \in 1 .. Len(m) }

\* the entries of m younger than TTL at time t, and those not older than TTL
Unexpired(m, t) ==
    { { e \in Entries(m) : t - e.timestamp < TTL_MS },
      { e \in Entries(m) : t - e.timestamp <= TTL_MS } }

\* C5: a run of cleanup_cache on a memory tier with more than
\* MAX_RAM_CACHE_SIZE unexpired entries (with an entry of age exactly TTL
\* counted as expired, or as unexpired) leaves exactly MAX_RAM_CACHE_SIZE of
\* them, unchanged, and every unexpired entry it removed has a timestamp no
\* larger than that of every entry it kept.
C5_EvictsOldest ==
    swept # NotSwept =>
        \A U \in Unexpired(swept.map, swept.at) :
            Cardinality(U) > MAX_RAM_CACHE_SIZE
              => /\ Len(ram_cache) = MAX_RAM_CACHE_SIZE
                 /\ Cardinality(Entries(ram_cache)) = MAX_RAM_CACHE_SIZE
                 /\ Entries(ram_cache) \subseteq U
                 /\ \A e \in U \ Entries(ram_cache) :
                        \A s \in Entries(ram_cache) :
                            e.timestamp <= s.timestamp

\* a sweep of a memory tier with at least two entries too many, all younger
\* than TTL, the oldest of them not the first inserted, has left
\* MAX_RAM_CACHE_SIZE entries
C5_Witness ==
    /\ swept # NotSwept
    /\ Len(swept.map) >= MAX_RAM_CACHE_SIZE + 2
    /\ \A e \in Entries(swept.map) : swept.at - e.timestamp < TTL_MS
    /\ \E i, j \in 1 .. Len(swept.map) :
          i < j /\ swept.map[j].timestamp < swept.map[i].timestamp
    /\ Len(ram_cache) = MAX_RAM_CACHE_SIZE

\* C6: the step in which generate_image throws answers 500 and changes
\* neither the memory tier nor the disk tier nor the pending disk writes.
C6_FailedRenderStoresNothing ==
    [][\A r \in Reqs :
          (req[r].pc = "render" /\ req'[r].pc = "done" /\ req'[r].status # 200)
              => /\ req'[r].status = 500
                 /\ req'[r].body = NoBuf
                 /\ req'[r].cached_at = -1
                 /\ UNCHANGED <<ram_cache, disk, writes>>]_vars

\* a request whose render failed, while the other tier contents exist
C6_Witness ==
    \E r \in Reqs :
        /\ IsOg(req[r]) /\ req[r].pc = "done" /\ req[r].status = 500
        /\ req[r].rendered
        /\ ~RamHas(ram_cache, req[r].key)
        /\ ~disk[FileName(req[r].key)].exists

\* C7: generate_image is invoked by a request only after its
\* get_cached_image returned null, and X-Cache-Status is HIT-RAM, HIT-DISK or
\* MISS according to the path taken: RAM hit, disk hit, or miss.
C7_RenderOnlyOnMiss ==
    \A r \in Reqs :
        IsOg(req[r]) =>
            /\ req[r].rendered <=> req[r].lookup = "null"
            /\ req[r].pc = "render" => req[r].lookup = "null"
            /\ req[r].xcache = "HIT-RAM" <=> req[r].lookup = "ram"
            /\ req[r].xcache = "HIT-DISK" <=> req[r].lookup = "disk"
            /\ req[r].xcache = "MISS" <=> req[r].lookup = "null"
            /\ IsHit(req[r]) => req[r].pc = "done" /\ req[r].status = 200

\* the three paths have each served a request
C7_Witness ==
    \E r1, r2, r3 \in Reqs :
        /\ req[r1].xcache = "MISS" /\ req[r1].status = 200
        /\ req[r2].xcache = "HIT-RAM" /\ req[r2].status = 200
        /\ req[r3].xcache = "HIT-DISK" /\ req[r3].status = 200
        /\ ~req[r2].rendered /\ ~req[r3].rendered

\* C8: the bytes get_cached_image returns, and the bytes it promotes into the
\* memory tier, are the complete bytes of some cache_image call.
C8_NoPartialBytes ==
    /\ \A r \in Reqs : IsHit(req[r]) => IsComplete(req[r].body)
    /\ \A e \in Entries(ram_cache) : IsComplete(e.buffer)

\* C9: a get_cached_image(key) that begins after a DELETE /cache/{key} has
\* completed returns null, as long as no cache_image for the key starts
\* after the deletion.
C9_AbsentAfterDelete ==
    \A r \in Reqs :
        (LookedUp(req[r]) /\ req[r].after_del) => req[r].lookup = "null"

\* C10: DELETE /cache/{key} never fails; each of its steps reports whether
\* its tier held the key, changes nothing when it did not, and leaves the
\* tier without the key, so that repeating the deletion changes nothing
\* more.
C10_DeleteIdempotent ==
    [][\A r \in Reqs :
          /\ (req[r].kind = "none" /\ IsDel(req'[r]))
                => LET k == req'[r].key
                   IN  /\ req'[r].status # 500
                       /\ req'[r].ram_deleted = RamHas(ram_cache, k)
                       /\ ~RamHas(ram_cache, k) => ram_cache' = ram_cache
                       /\ ~RamHas(ram_cache', k)
                       /\ \A e \in Entries(ram_cache) :
                              e.key # k => e \in Entries(ram_cache')
                       /\ disk' = disk
          /\ (IsDel(req[r]) /\ req[r].pc = "unlink" /\ req'[r].pc = "done")
                => LET f == FileName(req[r].key)
                   IN  /\ req'[r].disk_deleted = disk[f].exists
                       /\ ~disk[f].exists => disk' = disk
                       /\ ~disk'[f].exists
                       /\ \A g \in Files \ {f} : disk'[g] = disk[g]
                       /\ ram_cache' = ram_cache
                       /\ req'[r].status = 200]_vars

\* C11: two valid /og requests with the same effective parameters (the
\* second with the values padded with white space, or with the defaults
\* supplied or left empty) derive the same cache key; the same parameters in
\* another order get the same answer and the same cache key, and
\* generate_cache_key of the Deno variant returns the same key for the same
\* name/value pairs in another order.
C11_SameParamsSameKey ==
    (probe.kind = "key" /\ probe.done)
        => /\ (probe.og_first.status = 200 /\ probe.og_second.status = 200)
                 => probe.og_second.key = probe.og_first.key
           /\ probe.second.how = "reordered"
                 => /\ probe.og_second = probe.og_first
                    /\ probe.deno_second = probe.deno_first

\* all four parameters supplied, not in sorted order, the query valid
C11_Witness ==
    /\ probe.kind = "key" /\ probe.done
    /\ probe.second.how = "reordered"
    /\ probe.second.order = <<4, 3, 2, 1>>
    /\ Len(Supplied(probe.mapping, probe.second.order)) = 4
    /\ probe.mapping.title = <<" ", "a">>
    /\ probe.og_second.status = 200
    /\ probe.deno_second # NoDigest

\* C12: two valid /og requests whose validated parameters (title, author,
\* website, theme) differ in at least one parameter derive different cache
\* keys.
C12_DistinctParamsDistinctKeys ==
    ( /\ probe.kind = "pair" /\ probe.done
      /\ probe.og_first.status = 200 /\ probe.og_second.status = 200
      /\ probe.params_first # probe.params_second )
        => probe.og_first.key # probe.og_second.key

\* C13: a generate_image call that has returned or thrown has no page of
\* its own open, in all three variants, and in the fresh-browser variant the
\* browser it launched is no longer running.
C13_ReleasedOnEveryExit ==
    \A k \in Calls :
        gen.call[k].pc = "done"
            => /\ PagesOf(gen, k) = {}
               /\ gen.variant = "fresh" => gen.call[k].local \notin gen.open

\* fresh-browser variant: a call launched a browser, opened a page, failed
\* to render and threw
C13_Witness ==
    /\ gen.variant = "fresh"
    /\ \E k \in Calls :
          /\ gen.call[k].pc = "done" /\ gen.call[k].result = "error"
          /\ gen.call[k].local # 0
          /\ gen.call[k].outcome = "error"
          /\ gen.launched = 1 /\ gen.open = {}

\* C14: a call of the retrying generate_image makes at most 3 attempts; it
\* begins a further attempt only after the attempt before failed and the wait
\* was over; it returns the screenshot of the first attempt that took one and
\* does nothing afterwards; it throws only after the third attempt failed, and
\* then the error of that attempt; and every call that has begun ends.
C14_BoundedRetries ==
    /\ [](\A k \in Calls :
            gen.variant = "retrying"
              => /\ gen.call[k].attempt <= RETRIES
                 /\ (gen.call[k].pc = "done" /\ gen.call[k].result = "error")
                       => /\ gen.call[k].attempt = RETRIES
                          /\ gen.call[k].last_error = RETRIES
                 /\ (gen.call[k].pc = "done"
                        /\ gen.call[k].result = "screenshot")
                       => /\ gen.call[k].outcome = "ok"
                          /\ gen.call[k].last_error < gen.call[k].attempt)
    /\ [][\A k \in Calls :
            gen.variant = "retrying"
              => /\ gen'.call[k].attempt # gen.call[k].attempt
                      => /\ gen'.call[k].attempt = gen.call[k].attempt + 1
                         /\ gen.call[k].pc = "backoff"
                         /\ gen.call[k].last_error = gen.call[k].attempt
                 /\ gen.call[k].outcome = "ok"
                      => gen'.call[k].pc \in {"close_page", "done"}
                 /\ gen.call[k].pc = "done"
                      => gen'.call[k] = gen.call[k]]_vars
    /\ \A k \in Calls :
          (gen.variant = "retrying" /\ gen.call[k].pc # "idle")
              ~> (gen.call[k].pc = "done")

\* retrying variant: a call whose first two attempts failed has returned the
\* screenshot of the third
C14_Witness ==
    /\ gen.variant = "retrying"
    /\ \E k \in Calls :
          /\ gen.call[k].pc = "done" /\ gen.call[k].result = "screenshot"
          /\ gen.call[k].attempt = RETRIES
          /\ gen.call[k].last_error = RETRIES - 1

\* C15: a failure of the disk write of save_to_disk_cache is logged and
\* changes neither the memory tier nor any request: the request that called
\* cache_image has answered 200 with the rendered bytes; a failure of fs.stat
\* or fs.readFile makes get_cached_image return null; and a request ends with
\* a 500 only out of generate_image.
C15_DiskFailureContained ==
    /\ [](\A r \in Reqs :
            /\ req[r].cached_at >= 0
                 => /\ req[r].status = 200
                    /\ req[r].body = Image(req[r].key, r)
            /\ req[r].disk_error
                 => /\ req[r].lookup = "null"
                    /\ req[r].pc \in {"render", "done"})
    /\ [][/\ logged' # logged
             => /\ logged' = logged + 1
                /\ UNCHANGED <<ram_cache, req, disk>>
          /\ \A r \in Reqs :
               (IsOg(req'[r]) /\ req'[r].status = 500 /\ req[r].status # 500)
                   => req[r].pc = "render"]_vars

\* a disk write failed and was logged while the memory tier holds the image
\* and its request answered 200; another request met a disk error on its
\* lookup, rendered and answered 200 as a MISS
C15_Witness ==
    /\ logged >= 1
    /\ \E r1, r2 \in Reqs :
          /\ req[r1].cached_at >= 0 /\ req[r1].status = 200
          /\ RamHas(ram_cache, req[r1].key)
          /\ disk[FileName(req[r1].key)] = NoFile
          /\ req[r2].disk_error /\ req[r2].status = 200
          /\ req[r2].xcache = "MISS"

\* the disk write of the bytes of request g for key k is in progress
Writing(ws, k, g) == \E w \in ws : w.key = k /\ w.buffer = Image(k, g)

\* the step in which request r calls cache_image: the memory tier then holds
\* the rendered bytes, fresh, the request is answered and the disk write is
\* scheduled but has not begun
PutIsImmediate ==
    \A r \in Reqs :
        (req[r].cached_at < 0 /\ req'[r].cached_at >= 0)
            => LET k == req'[r].key
               IN  /\ RamHas(ram_cache', k)
                   /\ RamGet(ram_cache', k).buffer = Image(k, r)
                   /\ RamFresh(RamGet(ram_cache', k), now')
                   /\ req'[r].pc = "done"
                   /\ \E w \in writes' :
                         /\ w.key = k /\ w.buffer = Image(k, r)
                         /\ w.stage = "open"
                   /\ disk' = disk

\* every disk write comes to an end: from some time on none is in progress
WritesSettle == <>[](writes = {})

C17_DiskHitPromoted ==
    [][\A r \in Reqs :
          LET k == req'[r].key
              f == disk[FileName(k)]
          IN  /\ ( /\ IsOg(req[r]) /\ req[r].pc = "stat"
                   /\ req'[r].pc # "stat" /\ ~req'[r].disk_error
                   /\ f.exists /\ now - f.mtime <= TTL_MS )
                    => req'[r].pc = "read"
              /\ ( /\ IsOg(req[r]) /\ req[r].pc = "read"
                   /\ req'[r].pc # "read" /\ ~req'[r].disk_error
                   /\ f.exists )
                    => /\ req'[r].lookup = "disk"
                       /\ req'[r].body = f.content
                       /\ req'[r].status = 200
                       /\ RamHas(ram_cache', k)
                       /\ RamGet(ram_cache', k).buffer = f.content
                       /\ RamGet(ram_cache', k).timestamp = now
              /\ ( /\ req[r].kind = "none" /\ IsOg(req'[r])
                   /\ RamHas(ram_cache, k)
                   /\ now - RamGet(ram_cache, k).timestamp < TTL_MS )
                    => /\ req'[r].lookup = "ram"
                       /\ req'[r].body = RamGet(ram_cache, k).buffer
                       /\ req'[r].pc = "done"
                       /\ req'[r].status = 200]_vars

\* a request rendered and its image was written to disk; the next request for
\* the key arrived after that, found the key only in the disk tier and was a
\* disk hit; the request that arrived after it was a hit in the memory tier;
\* all three have the same bytes
C17_Witness ==
    \E r1, r2, r3 \in Reqs :
        /\ r1 < r2 /\ r2 < r3
        /\ req[r1].key = req[r2].key /\ req[r2].key = req[r3].key
        /\ req[r1].cached_at >= 0 /\ req[r2].seen = 1
        /\ req[r2].lookup = "disk" /\ req[r3].lookup = "ram"
        /\ req[r2].body = Image(req[r1].key, r1)
        /\ req[r3].body = req[r2].body

\* C18: the first request for a key answers MISS with the rendered image and
\* leaves it in the memory tier and on its way to the disk. Of the requests
\* that arrive after that render, by request g, the only one of the key, with
\* no DELETE started for the key, and that are answered from the cache before
\* the TTL of the render is over: one that finds the key in the memory tier
\* answers HIT-RAM with the image of g; one that does not (the entry was
\* evicted) answers HIT-DISK with the image of g and leaves it in the memory
\* tier.
C18_MissThenRamThenDisk ==
    [][\A r \in Reqs :
          LET k == req'[r].key
          IN  /\ (req[r].cached_at < 0 /\ req'[r].cached_at >= 0)
                    => /\ req'[r].xcache = "MISS"
                       /\ req'[r].body = Image(k, r)
                       /\ RamHas(ram_cache', k)
                       /\ RamGet(ram_cache', k).buffer = Image(k, r)
                       /\ Writing(writes', k, r)
              /\ \A g \in Reqs :
                    ( /\ LookupReturns(r)
                      /\ req'[r].lookup # "null"
                      /\ req[r].seen = 1
                      /\ Cached(k) = {g}
                      /\ \A d \in Reqs : IsDel(req[d]) => req[d].key # k
                      /\ now < req[g].cached_at + TTL_MS )
                    => /\ req'[r].body = Image(k, g)
                       /\ req'[r].xcache =
                            (IF req'[r].lookup = "ram" THEN "HIT-RAM"
                                                       ELSE "HIT-DISK")
                       /\ RamHas(ram_cache', k)
                       /\ RamGet(ram_cache', k).buffer = Image(k, g)]_vars

\* C19: once DELETE /cache has answered and its unlink calls have settled,
\* the memory tier is empty and disk_cleared_entries is the number of image
\* files the call removed, whether or not a disk operation failed; and when
\* none failed the disk tier is empty too.
C19_ClearCountsWhatItRemoved ==
    (probe.kind = "clear" /\ probe.pc = "done" /\ probe.pending = {})
        => /\ ram_cache = <<>>
           /\ probe.disk_cleared =
                Cardinality({ f \in probe.png_files : ~disk[f].exists })
           /\ ~probe.rejected => \A f \in Files : ~disk[f].exists

\* C20: after cleanup_cache has run, no entry older than TTL is left in the
\* memory tier and no file older than TTL is left in the disk tier.
C20_SweepClearsBothTiers ==
    swept # NotSwept =>
        /\ \A e \in Entries(ram_cache) : ~SweepExpired(e, swept.at)
        /\ \A f \in Files : disk[f].exists => ~DiskExpired(disk[f], swept.at)

C22_IntrospectionMutatesNothing ==
    [][(probe' # probe) =>
          /\ ram_cache' = ram_cache
          /\ disk' = disk
          /\ (probe'.kind = "health")
               => /\ probe'.ram_entries = Cardinality(RamKeys(ram_cache))
                  /\ probe'.status = 200
          /\ (probe'.kind = "stats" /\ probe'.pc = "readdir")
               => /\ Len(probe'.ram_entries) = Cardinality(RamKeys(ram_cache))
                  /\ \A i \in 1 .. Len(ram_cache) :
                         probe'.ram_entries[i] = ram_cache[i].key
          /\ (probe'.kind = "stats" /\ probe'.pc = "done")
               => /\ probe'.ram_entries = probe.ram_entries
                  /\ probe'.status = 200
                  /\ ~probe'.failed =>
                       /\ probe'.disk_entries =
                            { Sanitize(k) :
                                k \in { h \in Keys : disk[FileName(h)].exists } }
                       /\ Cardinality(probe'.disk_entries) =
                            Cardinality({ f \in Files : disk[f].exists })]_vars

\* GET /cache has answered with two keys of the memory tier and two of the
\* disk tier
C22_Witness ==
    /\ probe.kind = "stats" /\ probe.pc = "done" /\ ~probe.failed
    /\ Len(probe.ram_entries) = 2
    /\ probe.ram_entries[1] = <<"%">>
    /\ Cardinality(probe.disk_entries) = 2
    /\ <<"_">> \in probe.disk_entries
    /\ \A f \in Files : disk[f].exists

\* C23: a step of DELETE /cache or DELETE /cache/:key changes the memory tier
\* or the files only when ADMIN_TOKEN is set and the Authorization header of
\* the request is "Bearer " followed by it; a request that is answered 401
\* has changed neither.
C23_MutationNeedsAdminToken ==
    [][/\ (ram_cache' # ram_cache \/ disk' # disk)
            => /\ probe.env.set
               /\ probe.token.present
               /\ probe.token.value = "Bearer " \o probe.env.value
       /\ (probe'.kind = "denied")
            => /\ probe'.status = 401
               /\ ram_cache' = ram_cache /\ disk' = disk]_vars

\* the query has no title or a blank one, a title of more than 200
\* characters, an author or a website of more than 100, or a theme that is
\* not empty and neither light nor dark
Refusable(m) ==
    \/ m.title = Undefined
    \/ \A i \in 1 .. Len(m.title) : m.title[i] = " "
    \/ Len(m.title) > 200
    \/ m.author # Undefined /\ Len(m.author) > 100
    \/ m.website # Undefined /\ Len(m.website) > 100
    \/ m.theme \notin {Undefined, <<>>, Light, Dark}

\* C24 as stated: every theme other than light and dark, the empty one
\* included, is refused with 400.
C24_AnyOtherThemeRefused ==
    [][(probe.kind = "og" /\ probe.query.theme \notin {Undefined, Light, Dark})
          => /\ req' = req
             /\ probe' # probe => probe'.status = 400]_vars

\* C24: a GET /og whose query has no title or a blank one, a title of more
\* than 200 characters, an author or a website of more than 100, or a
\* non-empty theme other than light and dark, is answered 400 by its only
\* step, which starts no lookup and no render and changes neither the memory
\* tier nor the files nor the pending writes.
C24_InvalidNeverReachesPipeline ==
    [][(probe.kind = "og" /\ Refusable(probe.query))
          => /\ req' = req
             /\ ram_cache' = ram_cache
             /\ disk' = disk
             /\ writes' = writes
             /\ probe' # probe => probe'.status = 400]_vars

\* a query with an author of 101 characters was answered 400 while both
\* tiers hold an image, and no request has entered the pipeline
C24_Witness ==
    /\ probe.kind = "og" /\ probe.status = 400
    /\ probe.query.title = <<" ", "a", " ">>
    /\ Len(probe.query.author) = 101
    /\ ram_cache # <<>>
    /\ \E f \in DOMAIN disk : disk[f].exists
    /\ \A r \in Reqs : req[r] = NoReq

\* C30 as stated: the theme of an accepted result is the theme given, and
\* light only when no theme is given.
C30_ThemeGivenOrLight ==
    (probe.kind = "params" /\ probe.done /\ probe.validation.valid)
        => probe.validation.params.theme =
              (IF probe.query.theme = Undefined THEN Light
               ELSE probe.query.theme)

\* v without its leading and trailing white space
Trimmed(v) ==
    LET solid == { i \in 1 .. Len(v) : v[i] # " " }
    IN  IF solid = {} THEN <<>>
        ELSE SubSeq(v, CHOOSE i \in solid : \A j \in solid : i <= j,
                       CHOOSE i \in solid : \A j \in solid : i >= j)

\* C30: for every accepted query the result has the title without its
\* surrounding white space, not empty and of at most 200 characters; the
\* author and the website without theirs, or Anonymous and example.com when
\* they are absent or blank; and the theme given, or light when it is absent
\* or empty; none of the four is undefined.
C30_AcceptedParamsNormalised ==
    (probe.kind = "params" /\ probe.done /\ probe.validation.valid)
        => LET q == probe.query
               p == probe.validation.params
           IN  /\ q.title # Undefined
               /\ p.title = Trimmed(q.title)
               /\ Len(p.title) >= 1 /\ Len(p.title) <= 200
               /\ p.author =
                    (IF q.author = Undefined \/ Trimmed(q.author) = <<>>
                     THEN Anonymous ELSE Trimmed(q.author))
               /\ p.website =
                    (IF q.website = Undefined \/ Trimmed(q.website) = <<>>
                     THEN ExampleCom ELSE Trimmed(q.website))
               /\ p.theme =
                    (IF q.theme \in {Undefined, <<>>} THEN Light ELSE q.theme)
               /\ \A v \in {p.title, p.author, p.website, p.theme} :
                      v # Undefined /\ v # <<>>

\* a padded title, a blank author, a padded website and an empty theme were
\* accepted
C30_Witness ==
    /\ probe.kind = "params" /\ probe.done /\ probe.validation.valid
    /\ probe.query.title = <<" ", "a", " ">>
    /\ probe.query.author = <<" ">>
    /\ probe.query.website = <<"a", " ">>
    /\ probe.query.theme = <<>>
    /\ probe.validation.params =
         [title |-> <<"a">>, author |-> Anonymous, website |-> <<"a">>,
          theme |-> Light]

\* the limit in force: RATE_LIMIT_MAX_REQUESTS, the default when it is not set
LimitInForce == IF probe.raw = 0 THEN DEFAULT_MAX_REQUESTS ELSE probe.raw

\* C25: in production no client has had more than max_requests requests
\* passed on since its window was opened; a request that finds no record of
\* its client, or a record whose reset_time is past, is passed on and leaves
\* count 1 and reset_time one window ahead; a request that finds count at
\* max_requests in a window that is not over is answered 429 and leaves
\* every record and every count of passed requests as it was; any other
\* request is passed on and adds one to the count of its client only.
C25_AtMostMaxPerWindow ==
    [][(probe.kind = "rate" /\ probe.production /\ probe' # probe) =>
          LET c == probe'.last.client
              before == probe.request_counts[c]
              after == probe'.request_counts[c]
              open == before.count = 0 \/ now > before.reset_time
          IN  /\ \A d \in ClientIps :
                    /\ probe'.passed[d] <= LimitInForce
                    /\ probe'.passed[d] = probe'.request_counts[d].count
                    /\ d # c => probe'.request_counts[d] = probe.request_counts[d]
              /\ open => /\ probe'.last.status = 200
                         /\ after = [count |-> 1, reset_time |-> now + WindowMs]
              /\ (~open /\ before.count >= LimitInForce)
                    => /\ probe'.last.status = 429
                       /\ probe'.request_counts = probe.request_counts
                       /\ probe'.passed = probe.passed
              /\ (~open /\ before.count < LimitInForce)
                    => /\ probe'.last.status = 200
                       /\ after = [before EXCEPT !.count = before.count + 1]]_vars

\* in production with a limit of 2, a client whose second window is open has
\* just been answered 429 in it, another client has one request passed
C25_Witness ==
    /\ probe.kind = "rate" /\ probe.production /\ probe.raw = 2
    /\ probe.last = [client |-> "unknown", status |-> 429, retry_after |-> 1]
    /\ probe.request_counts["unknown"].count = 2
    /\ probe.request_counts["unknown"].reset_time > WindowMs
    /\ probe.request_counts["10.0.0.1"].count = 1
    /\ now < probe.request_counts["unknown"].reset_time

\* C26: with a renderer that may hang, an attempt that is waiting for the
\* page does not wait for ever: it ends (as a failed attempt, when the page
\* has not answered), and so every call of generate_image that has begun
\* ends.
C26_HungAttemptEnds ==
    \A k \in Calls :
        /\ (gen.call[k].pc = "render") ~> (gen.call[k].pc # "render")
        /\ (gen.call[k].pc # "idle") ~> (gen.call[k].pc = "done")

\* C27: in the variants that share a browser, every browser that is running
\* is the one this.browser refers to, so that at most one is running.
C27_NoBrowserLeaked ==
    gen.variant \in {"shared", "retrying"}
        => /\ gen.open \subseteq {gen.browser}
           /\ Cardinality(gen.open) <= 1

\* C28: retrying variant: when a call begins a further attempt, the browser
\* that its failed attempt ran on is no longer running and this.browser does
\* not refer to it.
C28_FailedBrowserClosedBeforeRetry ==
    [][\A k \in Calls :
          ( /\ gen.variant = "retrying"
            /\ gen.call[k].pc = "backoff"
            /\ gen'.call[k].pc # "backoff"
            /\ gen.call[k].local # 0 )
              => /\ gen.call[k].local \notin gen.open
                 /\ gen.browser # gen.call[k].local]_vars

\* C29 as stated: a disk hit leaves its entry in the memory tier with the
\* time of the promotion, and in the order of capacity eviction the entry
\* comes after every other entry of the memory tier.
C29_PromotedRanksNewest ==
    [][\A r \in Reqs :
          LET k == req'[r].key
              m == ram_cache'
              sorted == SortByTimestamp(m)
              pos(key) == CHOOSE i \in 1 .. Len(sorted) : sorted[i].key = key
          IN  ( /\ IsOg(req[r]) /\ req[r].pc = "read"
                /\ req'[r].pc = "done" /\ req'[r].lookup = "disk" )
                 => /\ RamHas(m, k)
                    /\ RamGet(m, k).timestamp = now
                    /\ \A i \in 1 .. Len(m) :
                          m[i].key # k => pos(m[i].key) < pos(k)]_vars

\* C29: a disk hit leaves its entry in the memory tier with the time of the
\* promotion, which no other entry's timestamp exceeds; in the order of
\* capacity eviction the entry comes after every entry with a smaller
\* timestamp, and after every other entry when the promotion added the key
\* to the memory tier.
C29_PromotedRanksNoOlder ==
    [][\A r \in Reqs :
          LET k == req'[r].key
              m == ram_cache'
              sorted == SortByTimestamp(m)
              pos(key) == CHOOSE i \in 1 .. Len(sorted) : sorted[i].key = key
          IN  ( /\ IsOg(req[r]) /\ req[r].pc = "read"
                /\ req'[r].pc = "done" /\ req'[r].lookup = "disk" )
                 => /\ RamHas(m, k)
                    /\ RamGet(m, k).timestamp = now
                    /\ \A i \in 1 .. Len(m) :
                          m[i].key # k
                            => /\ m[i].timestamp <= now
                               /\ ( \/ m[i].timestamp < now
                                    \/ ~RamHas(ram_cache, k) )
                                     => pos(m[i].key) < pos(k)]_vars

\* a disk hit was promoted later than its file was written, beside an older
\* entry of another key, in a memory tier over its capacity: the next
\* cleanup_cache removes the older entry and keeps the promoted one
C29_Witness ==
    \E r \in Reqs :
        LET k == req[r].key
        IN  /\ IsOg(req[r]) /\ req[r].pc = "done" /\ req[r].lookup = "disk"
            /\ RamHas(ram_cache, k)
            /\ disk[FileName(k)].exists
            /\ RamGet(ram_cache, k).timestamp > disk[FileName(k)].mtime
            /\ RamGet(ram_cache, k).timestamp = now
            /\ Len(ram_cache) > MAX_RAM_CACHE_SIZE
            /\ \E i \in 1 .. Len(ram_cache) :
                  /\ ram_cache[i].key # k
                  /\ ram_cache[i].timestamp < now
            /\ RamHas(RemoveOldest(ram_cache), k)
            /\ Len(RemoveOldest(ram_cache)) = MAX_RAM_CACHE_SIZE

----------------------------------------------------------------------------
(* GET /og for titles that differ only in characters get_from_disk_cache and
   save_to_disk_cache replace by "_" in the file name *)

NumSharing == 2

ShareTitles == { <<"a", "_">>, <<"a", "?">>, <<"a", "a">> }

\* the cache key GET /og builds for a query with only the title given
ShareKey(t) ==
    cache_key(validate_og_params([title |-> t, author |-> Undefined,
                                  website |-> Undefined,
                                  theme |-> Undefined]).params)

ShareKeys == { ShareKey(t) : t \in ShareTitles }

InitShare ==
    /\ now = 0
    /\ ram_cache = <<>>
    /\ disk = [f \in { FileName(k) : k \in ShareKeys } |-> NoFile]
    /\ writes = {}
    /\ req = [r \in Reqs |-> NoReq]
    /\ swept = NotSwept
    /\ del_done = [k \in ShareKeys |-> FALSE]
    /\ logged = 0
    /\ probe = NoProbe
    /\ gen = NoGen

NextShare ==
    \/ Tick
    \/ CleanupCache
    \/ \E r \in 1 .. NumSharing, t \in ShareTitles : OgStart(r, ShareKey(t))
    \/ \E r \in Reqs, ok \in BOOLEAN : OgStat(r, ok)
    \/ \E r \in Reqs, ok \in BOOLEAN : OgUnlink(r, ok)
    \/ \E r \in Reqs, ok \in BOOLEAN : OgRead(r, ok)
    \/ \E r \in Reqs : OgRenderOk(r)
    \/ \E r \in Reqs : OgRenderFail(r)
    \/ \E w \in writes, ok \in BOOLEAN : WriteOpen(w, ok)
    \/ \E w \in writes, ok \in BOOLEAN : WriteData(w, ok)

SpecShare == InitShare /\ [][NextShare]_vars

\* C31: a lookup that is answered from the cache is answered with bytes
\* rendered for its own key (or with what a write in progress has left of
\* them), and every entry of the memory tier holds bytes rendered for its key.
C31_ServedOnlyOwnKey ==
    /\ \A r \in Reqs :
          ( /\ IsOg(req[r]) /\ req[r].pc = "done"
            /\ req[r].lookup \in {"ram", "disk"} )
             => req[r].body.key \in {req[r].key, PartialBuf.key}
    /\ \A i \in 1 .. Len(ram_cache) :
          ram_cache[i].buffer.key \in {ram_cache[i].key, PartialBuf.key}

\* the same requests, and DELETE /cache/:key for the same keys
NextShareDel ==
    \/ NextShare
    \/ \E r \in 1 .. NumSharing, k \in ShareKeys : DelStart(r, k)
    \/ \E r \in Reqs : DelUnlink(r)

SpecShareDel == InitShare /\ [][NextShareDel]_vars

\* C32: a step of DELETE /cache/:key leaves, for every key other than the
\* one it deletes, the entry of the memory tier as it was and the file that
\* holds the image of that key as it was.
C32_DeleteLeavesOtherKeys ==
    [][\A r \in Reqs :
          ( IsDel(req'[r]) /\ req'[r] # req[r] )
             => \A k \in ShareKeys \ {req'[r].key} :
                   /\ RamHas(ram_cache', k) <=> RamHas(ram_cache, k)
                   /\ RamHas(ram_cache, k)
                        => RamGet(ram_cache', k) = RamGet(ram_cache, k)
                   /\ disk[FileName(k)].content.key = k
                        => disk'[FileName(k)] = disk[FileName(k)]]_vars

\* C33: when no request and no disk write is in progress, no disk write has
\* failed and no DELETE was made, a key that is in the memory tier younger
\* than TTL and in the disk tier not older than TTL, as a whole image in
\* each, has the same bytes in both.
C33_TiersCoherent ==
    ( /\ \A r \in Reqs : req[r].pc \in {"idle", "done"} /\ ~IsDel(req[r])
      /\ writes = {}
      /\ logged = 0 )
       => \A k \in Keys :
             LET f == disk[FileName(k)]
             IN  ( /\ RamHas(ram_cache, k)
                   /\ RamFresh(RamGet(ram_cache, k), now)
                   /\ f.exists /\ ~DiskExpired(f, now)
                   /\ IsComplete(RamGet(ram_cache, k).buffer)
                   /\ IsComplete(f.content) )
                    => RamGet(ram_cache, k).buffer = f.content

\* C34: retrying variant: when the failure handler of a call closes the
\* browser its failed attempt ran on, that browser carries no page on which
\* another call is rendering.
C34_HandlerSparesBusyBrowser ==
    [][\A k \in Calls :
          ( /\ gen.variant = "retrying"
            /\ gen.call[k].pc = "closing_browser"
            /\ gen'.call[k].pc = "closed_browser"
            /\ gen.call[k].local = gen.call[k].target )
             => \A pg \in gen.pages :
                   ( pg.browser = gen.call[k].target /\ pg.owner # k )
                      => gen.call[pg.owner].pc # "render"]_vars

\* C35: in the variants with get_browser, at most one call is in
\* chromium.launch at any time, is_initializing is true exactly while a call
\* is in chromium.launch, and a call that waits in the polling loop of
\* get_browser eventually leaves it.
C35_LaunchesSerialised ==
    /\ [](gen.variant \in {"shared", "retrying"}
            => /\ Cardinality({ k \in Calls : gen.call[k].pc = "launching" }) <= 1
               /\ gen.is_initializing
                    <=> (\E k \in Calls : gen.call[k].pc = "launching"))
    /\ \A k \in Calls :
          (gen.call[k].pc = "wait_init") ~> (gen.call[k].pc # "wait_init")

\* one call is in chromium.launch while another waits in the polling loop
C35_Witness ==
    /\ gen.variant \in {"shared", "retrying"}
    /\ gen.is_initializing
    /\ \E k1, k2 \in Calls :
          /\ gen.call[k1].pc = "launching"
          /\ gen.call[k2].pc = "wait_init"

----------------------------------------------------------------------------
(* The three expiry tests applied to an entry of the same age *)

MaxSlack == 8

\* ages around CACHE_TTL * 1000, in milliseconds
ExpiryAges == (TTL_MS - MaxSlack) .. (TTL_MS + MaxSlack)

Verdict(expired) == IF expired THEN "expired" ELSE "fresh"

\* an entry stored at time 0 in both tiers, looked at when its age is now
InitExpiry ==
    /\ now \in ExpiryAges
    /\ ram_cache = <<[key |-> <<"a">>, buffer |-> Image(<<"a">>, 1),
                      timestamp |-> 0]>>
    /\ disk = [f \in Files |->
                 IF f = FileName(<<"a">>)
                 THEN [exists |-> TRUE, content |-> Image(<<"a">>, 1),
                       mtime |-> 0]
                 ELSE NoFile]
    /\ writes = {}
    /\ req = [r \in Reqs |-> NoReq]
    /\ swept = NotSwept
    /\ del_done = [k \in Keys |-> FALSE]
    /\ logged = 0
    /\ probe = [kind |-> "expiry", ram |-> "", disk |-> "", sweep |-> ""]
    /\ gen = NoGen

\* get_cached_image: if (age < CACHE_TTL * 1000) return ... else delete
ExpiryRam ==
    /\ probe.ram = ""
    /\ probe' = [probe EXCEPT !.ram = Verdict(~RamFresh(ram_cache[1], now))]
    /\ UNCHANGED
          <<now, ram_cache, disk, writes, req, swept, del_done, logged, gen>>

\* get_from_disk_cache: if (age > CACHE_TTL * 1000) unlink
ExpiryDisk ==
    /\ probe.disk = ""
    /\ probe' = [probe EXCEPT
                    !.disk = Verdict(DiskExpired(disk[FileName(<<"a">>)], now))]
    /\ UNCHANGED
          <<now, ram_cache, disk, writes, req, swept, del_done, logged, gen>>

\* cleanup_cache: if (now - entry.timestamp > CACHE_TTL * 1000) delete
ExpirySweep ==
    /\ probe.sweep = ""
    /\ probe' = [probe EXCEPT
                    !.sweep = Verdict(SweepExpired(ram_cache[1], now))]
    /\ UNCHANGED
          <<now, ram_cache, disk, writes, req, swept, del_done, logged, gen>>

NextExpiry == ExpiryRam \/ ExpiryDisk \/ ExpirySweep

SpecExpiry == InitExpiry /\ [][NextExpiry]_vars

\* C36: the lookup in the memory tier, the lookup in the disk tier and
\* cleanup_cache give the same verdict on an entry of the same age.
C36_SameExpiryEverywhere ==
    (probe.ram # "" /\ probe.disk # "" /\ probe.sweep # "")
       => (probe.ram = probe.disk /\ probe.disk = probe.sweep)

\* C37: a run of cleanup_cache on a memory tier whose unexpired entries
\* (with an entry of age exactly TTL counted as expired, or as unexpired)
\* number at most MAX_RAM_CACHE_SIZE keeps every one of them; the entries it
\* leaves are entries it found, with their bytes and timestamps, in the order
\* they were in; and it leaves every file of the disk tier as it was.
C37_SweepDestroysNothingNeedlessly ==
    [][(swept' # swept)
          => /\ \A U \in Unexpired(ram_cache, now) :
                   Cardinality(U) <= MAX_RAM_CACHE_SIZE
                     => U \subseteq Entries(ram_cache')
             /\ ram_cache' =
                   SelectSeq(ram_cache, LAMBDA e : e \in Entries(ram_cache'))
             /\ disk' = disk]_vars

\* a sweep found expired entries beside unexpired ones, no more of these than
\* the capacity, and an expired file in the disk tier: it removed the expired
\* entries, kept the others and the file is still there
C37_Witness ==
    /\ swept # NotSwept
    /\ Len(ram_cache) >= 1
    /\ Len(swept.map) > Len(ram_cache)
    /\ Cardinality({ e \in Entries(swept.map) :
                        swept.at - e.timestamp <= TTL_MS })
          <= MAX_RAM_CACHE_SIZE
    /\ \E f \in Files : disk[f].exists /\ swept.at - disk[f].mtime > TTL_MS

----------------------------------------------------------------------------
(* pre_warm_cache, run by the timer set at start-up, on every memory tier
   over Keys and every set of image files, while time passes *)

MaxPosts == 2

\* the cache keys of images_to_warm, one for each post fetched
WarmLists == UNION { [1 .. n -> Keys] : n \in 0 .. MaxPosts }

\* the for loop goes on to its next element, or ends
WarmNext(p) ==
    [p EXCEPT !.todo = Tail(@),
              !.pc = IF Tail(p.todo) = <<>> THEN "done" ELSE "lookup"]

\* fetch and response.json(): the fetch throws (caught by the catch block and
\* logged), or answers with a status that is not ok (return), or with posts
WarmFetch(outcome, posts) ==
    /\ probe = NoProbe
    /\ probe' =
         [kind |-> "warm",
          pc |-> IF outcome = "posts" /\ posts # <<>> THEN "lookup" ELSE "done",
          todo |-> IF outcome = "posts" THEN posts ELSE <<>>,
          error |-> outcome = "throws",
          warmed |-> 0]
    /\ UNCHANGED
          <<now, ram_cache, disk, writes, req, swept, del_done, logged, gen>>

\* get_cached_image(cache_key) looks in the memory tier
WarmLookup ==
    /\ probe.kind = "warm"
    /\ probe.pc = "lookup"
    /\ LET k == Head(probe.todo)
       IN  IF RamHas(ram_cache, k) /\ RamFresh(RamGet(ram_cache, k), now)
           THEN /\ ram_cache' = ram_cache
                /\ probe' = WarmNext(probe)
           ELSE /\ ram_cache' = RamDelete(ram_cache, k)
                /\ probe' = [probe EXCEPT !.pc = "stat"]
    /\ UNCHANGED <<now, disk, writes, req, swept, del_done, logged, gen>>

\* get_from_disk_cache: fs.stat settles
WarmStat(ok) ==
    /\ probe.kind = "warm"
    /\ probe.pc = "stat"
    /\ LET f == disk[FileName(Head(probe.todo))]
       IN  /\ ~ok => f.exists
           /\ probe' =
                IF ~f.exists \/ ~ok THEN WarmNext(probe)
                ELSE IF DiskExpired(f, now) THEN [probe EXCEPT !.pc = "unlink"]
                ELSE [probe EXCEPT !.pc = "read"]
    /\ UNCHANGED
          <<now, ram_cache, disk, writes, req, swept, del_done, logged, gen>>

\* get_from_disk_cache: fs.unlink of the expired file settles
WarmUnlink(ok) ==
    /\ probe.kind = "warm"
    /\ probe.pc = "unlink"
    /\ LET f == FileName(Head(probe.todo))
       IN  /\ ~ok => disk[f].exists
           /\ disk' = IF ok THEN ExpireFile(disk, f) ELSE disk
           /\ writes' = IF ok THEN OrphanWrites(writes, f) ELSE writes
    /\ probe' = WarmNext(probe)
    /\ UNCHANGED <<now, ram_cache, req, swept, del_done, logged, gen>>

\* get_from_disk_cache: fs.readFile settles; get_cached_image promotes what
\* was read; pre_warm_cache logs the disk hit
WarmRead(ok) ==
    /\ probe.kind = "warm"
    /\ probe.pc = "read"
    /\ LET k == Head(probe.todo)
           f == disk[FileName(k)]
       IN  /\ ~ok => f.exists
           /\ IF f.exists /\ ok
              THEN /\ ram_cache' = Promote(ram_cache, k, f.content, now)
                   /\ probe' = [WarmNext(probe) EXCEPT !.warmed = @ + 1]
              ELSE /\ ram_cache' = ram_cache
                   /\ probe' = WarmNext(probe)
    /\ UNCHANGED <<now, disk, writes, req, swept, del_done, logged, gen>>

NextWarm ==
    \/ Tick
    \/ \E outcome \in {"throws", "not_ok", "posts"}, posts \in WarmLists :
          WarmFetch(outcome, posts)
    \/ WarmLookup
    \/ \E ok \in BOOLEAN : WarmStat(ok)
    \/ \E ok \in BOOLEAN : WarmUnlink(ok)
    \/ \E ok \in BOOLEAN : WarmRead(ok)

SpecWarm == InitClear /\ [][NextWarm]_vars

\* C38: a step of pre_warm_cache starts no render and no disk write; a file
\* it changes was older than TTL and is removed; an entry it takes out of the
\* memory tier was not younger than TTL; an entry it puts into the memory
\* tier holds the bytes it read from the file of its key, with the time of
\* the step; it goes on to read a file only when it found the file not older
\* than TTL; and when the fetch throws, pre-warming ends there with both
\* tiers as they were.
C38_PreWarmOnlyPromotesAndExpires ==
    [][(probe' # probe)
          => /\ gen' = gen /\ writes' = writes /\ req' = req
             /\ \A f \in Files :
                   disk'[f] # disk[f]
                     => /\ disk[f].exists
                        /\ now - disk[f].mtime > TTL_MS
                        /\ disk'[f] = NoFile
             /\ \A k \in Keys :
                   LET f == disk[FileName(k)]
                   IN  /\ ( RamHas(ram_cache, k) /\ ~RamHas(ram_cache', k) )
                            => now - RamGet(ram_cache, k).timestamp >= TTL_MS
                       /\ ( /\ RamHas(ram_cache', k)
                            /\ ( ~RamHas(ram_cache, k)
                                 \/ RamGet(ram_cache', k) # RamGet(ram_cache, k) ) )
                            => /\ f.exists
                               /\ probe.pc = "read"
                               /\ RamGet(ram_cache', k) =
                                    [key |-> k, buffer |-> f.content,
                                     timestamp |-> now]
             /\ ( probe.kind = "warm" /\ probe.pc = "stat" /\ probe'.pc = "read" )
                  => LET f == disk[FileName(Head(probe.todo))]
                     IN  f.exists /\ now - f.mtime <= TTL_MS
             /\ probe'.error
                  => /\ probe'.pc = "done"
                     /\ ram_cache' = ram_cache /\ disk' = disk]_vars

\* pre-warming has promoted the file of one post into the memory tier and
\* has found the file of a later post expired
C38_Witness ==
    /\ probe.kind = "warm"
    /\ probe.warmed >= 1
    /\ probe.pc = "unlink"
    /\ \E k \in Keys :
          /\ RamHas(ram_cache, k)
          /\ RamGet(ram_cache, k).timestamp > disk[FileName(k)].mtime

====
